---- MODULE Spec2Model ----
(***************************************************************************)
(* A model of the ide terminal UI: the bubbletea Model/Update state        *)
(* machine (package ui), the JSON config store (package config) and the    *)
(* tmux gateway (package tmux).                                            *)
(*                                                                         *)
(* Strings are sequences of one-character strings, so that TrimSpace,      *)
(* ToLower, EqualFold, Split and the window-spec codec are computed the    *)
(* way the Go code computes them.  The paths used by the model hold no     *)
(* '$', '~', '/' or '.', so that os.ExpandEnv, the home-directory          *)
(* expansion and filepath.Clean leave them as they are.                    *)
(***************************************************************************)
EXTENDS Integers, Sequences, FiniteSets, Bags, TLC

(***************************************************************************)
(* Go's strings package, on sequences of characters.                       *)
(***************************************************************************)
IsSpace(c) == c = " "

RECURSIVE TrimLeft(_)
TrimLeft(s) ==
    IF s = <<>> THEN <<>>
    ELSE IF IsSpace(Head(s)) THEN TrimLeft(Tail(s)) ELSE s

RECURSIVE TrimRight(_)
TrimRight(s) ==
    IF s = <<>> THEN <<>>
    ELSE IF IsSpace(s[Len(s)]) THEN TrimRight(SubSeq(s, 1, Len(s) - 1)) ELSE s

TrimSpace(s) == TrimRight(TrimLeft(s))

UpperRunes == <<"A","B","C","D","E","F","G","H","I","J","K","L","M",
                "N","O","P","Q","R","S","T","U","V","W","X","Y","Z">>
LowerRunes == <<"a","b","c","d","e","f","g","h","i","j","k","l","m",
                "n","o","p","q","r","s","t","u","v","w","x","y","z">>

LowerRune(c) ==
    IF \E i \in 1..Len(UpperRunes) : UpperRunes[i] = c
    THEN LowerRunes[CHOOSE i \in 1..Len(UpperRunes) : UpperRunes[i] = c]
    ELSE c

RECURSIVE ToLower(_)
ToLower(s) ==
    IF s = <<>> THEN <<>> ELSE <<LowerRune(Head(s))>> \o ToLower(Tail(s))

EqualFold(a, b) == ToLower(a) = ToLower(b)

\* strings.ReplaceAll(s, old, new) for one-character old and new
RECURSIVE ReplaceAll(_, _, _)
ReplaceAll(s, old, new) ==
    IF s = <<>> THEN <<>>
    ELSE <<IF Head(s) = old THEN new ELSE Head(s)>> \o ReplaceAll(Tail(s), old, new)

\* strings.Contains(s, c) for a one-character c
ContainsRune(s, c) == \E i \in 1..Len(s) : s[i] = c

\* strings.Contains(s, sub)
Contains(s, sub) ==
    \/ sub = <<>>
    \/ \E i \in 1..(Len(s) - Len(sub) + 1) : SubSeq(s, i, i + Len(sub) - 1) = sub

\* the byte value of a character (ASCII), as compared by Go's string order
PunctRunes == <<" ", ",", "-", "1", "2", "3", ";", "=", "?", "|">>
PunctCodes == <<32, 44, 45, 49, 50, 51, 59, 61, 63, 124>>
RuneCode(c) ==
    IF \E i \in 1..26 : UpperRunes[i] = c
    THEN 64 + (CHOOSE i \in 1..26 : UpperRunes[i] = c)
    ELSE IF \E i \in 1..26 : LowerRunes[i] = c
    THEN 96 + (CHOOSE i \in 1..26 : LowerRunes[i] = c)
    ELSE PunctCodes[CHOOSE i \in 1..Len(PunctRunes) : PunctRunes[i] = c]

\* Go's a < b on strings
RECURSIVE StrLess(_, _)
StrLess(a, b) ==
    IF b = <<>> THEN FALSE
    ELSE IF a = <<>> THEN TRUE
    ELSE IF Head(a) = Head(b) THEN StrLess(Tail(a), Tail(b))
    ELSE RuneCode(Head(a)) < RuneCode(Head(b))

\* index of the first occurrence of c in s, 0 when absent
IndexRune(s, c) ==
    IF ContainsRune(s, c) THEN CHOOSE i \in 1..Len(s) : s[i] = c /\ \A j \in 1..(i - 1) : s[j] # c
    ELSE 0

\* strings.Split(s, sep) for a one-character separator
RECURSIVE Split(_, _)
Split(s, sep) ==
    LET i == IndexRune(s, sep) IN
    IF i = 0 THEN <<s>>
    ELSE <<SubSeq(s, 1, i - 1)>> \o Split(SubSeq(s, i + 1, Len(s)), sep)

\* strings.SplitN(s, sep, 2)
SplitN2(s, sep) ==
    LET i == IndexRune(s, sep) IN
    IF i = 0 THEN <<s>>
    ELSE <<SubSeq(s, 1, i - 1), SubSeq(s, i + 1, Len(s))>>

\* strings.Join(parts, sep) for a one-character separator
RECURSIVE Join(_, _)
Join(parts, sep) ==
    IF parts = <<>> THEN <<>>
    ELSE IF Len(parts) = 1 THEN parts[1]
    ELSE parts[1] \o <<sep>> \o Join(Tail(parts), sep)

\* trimLastRune
trimLastRune(input) ==
    IF Len(input) = 0 THEN input ELSE SubSeq(input, 1, Len(input) - 1)

RemoveAt(s, i) == SubSeq(s, 1, i - 1) \o SubSeq(s, i + 1, Len(s))

\* index of the first element satisfying P, 0 when there is none
FirstIdx(s, P(_)) ==
    IF \E i \in 1..Len(s) : P(s[i])
    THEN CHOOSE i \in 1..Len(s) : P(s[i]) /\ \A j \in 1..(i - 1) : ~P(s[j])
    ELSE 0

(***************************************************************************)
(* package config                                                          *)
(***************************************************************************)
Window(name, cmd, cwd) == [name |-> name, cmd |-> cmd, cwd |-> cwd]

Environment(name, root, windows) ==
    [name |-> name, root |-> root, folder |-> <<>>, db |-> <<>>, windows |-> windows]

Template(name, windows) == [name |-> name, windows |-> windows]

Data(environments, templates, theme) ==
    [environments |-> environments, templates |-> templates, theme |-> theme]

\* fmt.Sprintf("%d", n) for n >= 0
Digits == <<"0","1","2","3","4","5","6","7","8","9">>
RECURSIVE Itoa(_)
Itoa(n) == IF n < 10 THEN <<Digits[n + 1]>> ELSE Itoa(n \div 10) \o <<Digits[(n % 10) + 1]>>

legacyDefaultWindows(dbConnection) ==
    LET dbCmd == IF TrimSpace(dbConnection) # <<>>
                 THEN <<"d","b","d","a","s","h"," ","c","o","n","n","e","c","t"," ">> \o TrimSpace(dbConnection)
                 ELSE <<"d","b","d","a","s","h">>
    IN << Window(<<"e","d","i","t","o","r">>, <<"n","v","i","m"," ",".">>, <<>>),
          Window(<<"t","e","r","m","i","n","a","l">>, <<>>, <<>>),
          Window(<<"l","a","z","y","g","i","t">>, <<"l","a","z","y","g","i","t">>, <<>>),
          Window(<<"k","9","s">>, <<"k","9","s"," ","-","n"," ","t","e">>, <<>>),
          Window(<<"d","a","t","a","b","a","s","e">>, dbCmd, <<>>) >>

cloneWindows(windows) == windows

DefaultWindows == cloneWindows(legacyDefaultWindows(<<>>))

DefaultTemplates == << Template(<<"d","e","f","a","u","l","t">>, DefaultWindows) >>

\* os.ExpandEnv, the "~/" expansion and filepath.Clean leave the model's
\* alphabet unchanged; what is left of normalizePath is the trimming
normalizePath(value) == TrimSpace(value)

\* normalizeWindows that leaves cmd as it was
RECURSIVE normalizeWindowsFromRawCmd(_, _)
normalizeWindowsFromRawCmd(windows, i) ==
    IF i > Len(windows) THEN <<>>
    ELSE LET w == windows[i]
             name == TrimSpace(w.name)
         IN << Window(IF name = <<>> THEN <<"w","i","n","d","o","w","-">> \o Itoa(i) ELSE name,
                      w.cmd, TrimSpace(w.cwd)) >>
            \o normalizeWindowsFromRawCmd(windows, i + 1)

RECURSIVE normalizeWindowsFrom(_, _)
normalizeWindowsFrom(windows, i) ==
    IF i > Len(windows) THEN <<>>
    ELSE LET w == windows[i]
             name == TrimSpace(w.name)
         IN << Window(IF name = <<>> THEN <<"w","i","n","d","o","w","-">> \o Itoa(i) ELSE name,
                      TrimSpace(w.cmd), TrimSpace(w.cwd)) >>
            \o normalizeWindowsFrom(windows, i + 1)

normalizeWindows(windows) ==
    IF Len(windows) = 0 THEN << Window(<<"s","h","e","l","l">>, <<>>, <<>>) >>
    ELSE normalizeWindowsFrom(windows, 1)

normalizeEnvironment(env) ==
    LET name   == TrimSpace(env.name)
        folder == TrimSpace(env.folder)
        db     == TrimSpace(env.db)
        root   == normalizePath(IF env.root = <<>> THEN folder ELSE env.root)
        wins   == IF Len(env.windows) = 0 THEN legacyDefaultWindows(db) ELSE env.windows
    IN [name |-> name, root |-> root, folder |-> folder, db |-> db,
        windows |-> normalizeWindows(wins)]

normalizeTemplate(template) ==
    LET name == TrimSpace(template.name)
        wins == IF Len(template.windows) = 0 THEN DefaultWindows ELSE template.windows
    IN Template(IF name = <<>> THEN <<"t","e","m","p","l","a","t","e">> ELSE name, normalizeWindows(wins))

\* LoadAll, on the document read from the file
LoadAll(doc) ==
    LET envs == [i \in 1..Len(doc.environments) |-> normalizeEnvironment(doc.environments[i])]
        tpls == [i \in 1..Len(doc.templates) |-> normalizeTemplate(doc.templates[i])]
    IN Data(envs, IF Len(tpls) = 0 THEN DefaultTemplates ELSE tpls, TrimSpace(doc.theme))

\* SaveAll: the document written to the file
SaveAll(data) ==
    Data([i \in 1..Len(data.environments) |-> normalizeEnvironment(data.environments[i])],
         [i \in 1..Len(data.templates) |-> normalizeTemplate(data.templates[i])],
         TrimSpace(data.theme))

(***************************************************************************)
(* package tmux: the pure part                                             *)
(***************************************************************************)
\* SessionName that keeps the case of the name
SessionNameKeepCase(envName) ==
    LET clean == ReplaceAll(TrimSpace(envName), " ", "-")
    IN IF clean = <<>> THEN <<"i","d","e">> ELSE <<"i","d","e","-">> \o clean

SessionName(envName) ==
    LET clean == ReplaceAll(TrimSpace(ToLower(envName)), " ", "-")
    IN IF clean = <<>> THEN <<"i","d","e">> ELSE <<"i","d","e","-">> \o clean

safeWindowName(name) ==
    IF TrimSpace(name) = <<>> THEN <<"s","h","e","l","l">> ELSE ReplaceAll(TrimSpace(name), " ", "-")

WindowNames(env) ==
    IF Len(env.windows) = 0 THEN << <<"s","h","e","l","l">> >>
    ELSE [i \in 1..Len(env.windows) |-> safeWindowName(env.windows[i].name)]

AttachTarget(env, windowName) ==
    IF TrimSpace(windowName) = <<>> THEN SessionName(env.name)
    ELSE SessionName(env.name) \o <<":">> \o safeWindowName(windowName)

(***************************************************************************)
(* package ui: the window-spec codec                                       *)
(***************************************************************************)
NoErr == [kind |-> "", arg |-> <<>>]
Err(kind, arg) == [kind |-> kind, arg |-> arg]

RECURSIVE formatEntries(_)
formatEntries(windows) ==
    IF windows = <<>> THEN <<>>
    ELSE LET w    == Head(windows)
             name == TrimSpace(w.name)
             cmd  == TrimSpace(w.cmd)
             cwd  == TrimSpace(w.cwd)
             entry == IF cmd # <<>> \/ cwd # <<>>
                      THEN name \o <<"=">> \o cmd \o (IF cwd # <<>> THEN <<"|">> \o cwd ELSE <<>>)
                      ELSE name
         IN (IF name = <<>> THEN <<>> ELSE <<entry>>) \o formatEntries(Tail(windows))

formatWindowSpec(windows) ==
    IF Len(windows) = 0 THEN <<>> ELSE Join(formatEntries(windows), ";")

RECURSIVE trimDropEmpty(_)
trimDropEmpty(raw) ==
    IF raw = <<>> THEN <<>>
    ELSE (IF TrimSpace(Head(raw)) = <<>> THEN <<>> ELSE <<TrimSpace(Head(raw))>>)
         \o trimDropEmpty(Tail(raw))

\* splitWindowEntries that separates at ',' only
splitWindowEntriesComma(spec) ==
    LET s == TrimSpace(spec) IN
    IF s = <<>> THEN <<>>
    ELSE trimDropEmpty(Split(s, ","))

splitWindowEntries(spec) ==
    LET s == TrimSpace(spec) IN
    IF s = <<>> THEN <<>>
    ELSE trimDropEmpty(Split(s, IF ContainsRune(s, ";") THEN ";" ELSE ","))

\* parseWindowEntry: [window, err]
parseWindowEntry(entry0) ==
    LET entry == TrimSpace(entry0)
        none  == Window(<<>>, <<>>, <<>>)
    IN
    IF entry = <<>> THEN [window |-> none, err |-> Err("empty window entry", <<>>)]
    ELSE IF ContainsRune(entry, "=") THEN
        LET parts   == SplitN2(entry, "=")
            name    == TrimSpace(parts[1])
            cmdPart == TrimSpace(parts[2])
            cmdCwd  == SplitN2(cmdPart, "|")
        IN IF name = <<>>
           THEN [window |-> none, err |-> Err("window name cannot be empty in", entry)]
           ELSE IF ContainsRune(cmdPart, "|")
           THEN [window |-> Window(name, TrimSpace(cmdCwd[1]), TrimSpace(cmdCwd[2])),
                 err |-> NoErr]
           ELSE [window |-> Window(name, cmdPart, <<>>), err |-> NoErr]
    ELSE IF ContainsRune(entry, "|") THEN
        LET parts == Split(entry, "|")
            name  == TrimSpace(parts[1])
        IN IF Len(parts) > 3
           THEN [window |-> none, err |-> Err("invalid window entry", entry)]
           ELSE IF name = <<>>
           THEN [window |-> none, err |-> Err("window name cannot be empty in", entry)]
           ELSE [window |-> Window(name,
                                   IF Len(parts) >= 2 THEN TrimSpace(parts[2]) ELSE <<>>,
                                   IF Len(parts) = 3 THEN TrimSpace(parts[3]) ELSE <<>>),
                 err |-> NoErr]
    ELSE [window |-> Window(entry, <<>>, <<>>), err |-> NoErr]

RECURSIVE parseEntries(_)
parseEntries(entries) ==
    IF entries = <<>> THEN [windows |-> <<>>, err |-> NoErr]
    ELSE LET one == parseWindowEntry(Head(entries)) IN
         IF one.err # NoErr THEN [windows |-> <<>>, err |-> one.err]
         ELSE LET rest == parseEntries(Tail(entries)) IN
              IF rest.err # NoErr THEN rest
              ELSE [windows |-> <<one.window>> \o rest.windows, err |-> NoErr]

\* parseWindowSpec: [windows, err]
parseWindowSpec(spec) ==
    LET entries == splitWindowEntries(spec) IN
    IF Len(entries) = 0
    THEN [windows |-> <<>>, err |-> Err("at least one window is required", <<>>)]
    ELSE parseEntries(entries)

cloneWindowTemplates(windows) == windows

normalizeWindowName(name) ==
    IF TrimSpace(name) = <<>> THEN <<"s","h","e","l","l">> ELSE ReplaceAll(TrimSpace(name), " ", "-")

normalizeRootPath(value) == TrimSpace(value)

(***************************************************************************)
(* package ui: constants, the Model and its messages                       *)
(***************************************************************************)
createFieldName == 0
createFieldRoot == 1
createFieldTemplate == 2
createFieldCustomWindows == 3

focusPaneEnvironments == 0
focusPaneWindows == 1
focusPaneTemplates == 2

templateFieldName == 0
templateFieldWindows == 1

\* defaultThemes(): the names of the catalog, in order
defaultThemes ==
    << <<"M","i","d","n","i","g","h","t">>,
       <<"C","a","t","p","p","u","c","c","i","n"," ","M","o","c","h","a">>,
       <<"C","a","t","p","p","u","c","c","i","n"," ","L","a","t","t","e">>,
       <<"G","r","u","v","b","o","x"," ","D","a","r","k">>,
       <<"G","r","u","v","b","o","x"," ","L","i","g","h","t">>,
       <<"T","o","k","y","o"," ","N","i","g","h","t">>,
       <<"N","o","r","d">>,
       <<"D","r","a","c","u","l","a">>,
       <<"S","o","l","a","r","i","z","e","d"," ","D","a","r","k">>,
       <<"S","o","l","a","r","i","z","e","d"," ","L","i","g","h","t">>,
       <<"O","n","e"," ","D","a","r","k">>,
       <<"M","o","n","o","k","a","i"," ","P","r","o">>,
       <<"N","i","g","h","t"," ","O","w","l">>,
       <<"R","o","s","e"," ","P","i","n","e">>,
       <<"E","v","e","r","f","o","r","e","s","t"," ","D","a","r","k">>,
       <<"K","a","n","a","g","a","w","a">>,
       <<"A","y","u"," ","M","i","r","a","g","e">>,
       <<"I","c","e">>,
       <<"A","m","b","e","r">> >>

\* the status line: a fixed text, followed by a name or by an error's text
St(text) == [text |-> text, arg |-> <<>>, err |-> NoErr]
StA(text, arg) == [text |-> text, arg |-> arg, err |-> NoErr]
StE(text, err) == [text |-> text, arg |-> <<>>, err |-> err]

\* strings.HasPrefix(m.status, p) for the three prefixes the config handler tests
StatusHasLoadPrefix(status) ==
    status.text \in {"Loading environments...", "Refreshing...",
                     "No environments configured.", "No environments configured in "}

NoEnv == Environment(<<>>, <<>>, <<>>)
NoData == Data(<<>>, <<>>, <<>>)

\* NewModel()
NewModel ==
    [ environments |-> <<>>, templates |-> <<>>,
      focusPane |-> focusPaneEnvironments,
      selectedEnv |-> 0, selectedWindow |-> 0, selectedTemplate |-> 0,
      sessions |-> {}, sessionWindows |-> <<>>,
      createMode |-> FALSE, createField |-> 0, createName |-> <<>>, createRoot |-> <<>>,
      createTemplate |-> 0, createCustom |-> <<>>,
      templateMode |-> FALSE, templateField |-> 0, templateName |-> <<>>,
      templateSpec |-> <<>>, templateEditing |-> FALSE, templateOrigin |-> <<>>,
      showShortcuts |-> FALSE, showThemePicker |-> FALSE,
      themeQuery |-> <<>>, themePickerCursor |-> 0,
      killConfirm |-> <<>>, deleteConfirm |-> <<>>, templateDeleteConfirm |-> <<>>,
      pendingSelect |-> <<>>, pendingTemplateSelect |-> <<>>,
      themeIndex |-> 0,
      status |-> St("Loading environments..."),
      previewContent |-> <<>>, previewSession |-> <<>>, previewWindow |-> <<>>,
      previewProcess |-> <<>> ]

\* a request (tea.Cmd): the operation, its captured arguments, and how far it ran
CmdBase ==
    [ op |-> "", name |-> <<>>, root |-> <<>>, windows |-> <<>>, originalName |-> <<>>,
      direction |-> 0, session |-> <<>>, window |-> <<>>, env |-> NoEnv,
      theme |-> <<>>, target |-> <<>>, stage |-> "start", data |-> NoData,
      edited |-> FALSE, result |-> <<>>, source |-> <<>>, destination |-> <<>> ]

loadConfigCmd == [CmdBase EXCEPT !.op = "loadConfig"]
loadSessionsCmd == [CmdBase EXCEPT !.op = "loadSessions"]
saveThemePreferenceCmd(theme) == [CmdBase EXCEPT !.op = "saveTheme", !.theme = theme]
createEnvironmentCmd(name, root, windows) ==
    [CmdBase EXCEPT !.op = "createEnvironment", !.name = name, !.root = root,
                    !.windows = windows]
saveTemplateCmd(originalName, name, windows) ==
    [CmdBase EXCEPT !.op = "saveTemplate", !.originalName = originalName, !.name = name,
                    !.windows = windows]
killSessionCmd(session) == [CmdBase EXCEPT !.op = "killSession", !.session = session]
deleteTemplateCmd(name) == [CmdBase EXCEPT !.op = "deleteTemplate", !.name = name]
deleteEnvironmentCmd(name) == [CmdBase EXCEPT !.op = "deleteEnvironment", !.name = name]
moveWindowOrderCmd(envName, windowName, direction) ==
    [CmdBase EXCEPT !.op = "moveWindowOrder", !.name = envName, !.window = windowName,
                    !.direction = direction]
prepareAttachCmd(env, windowName) ==
    [CmdBase EXCEPT !.op = "prepareAttach", !.env = env, !.window = windowName]
execAttachCmd(target) == [CmdBase EXCEPT !.op = "execAttach", !.target = target]
capturePaneCmd(session, window) ==
    [CmdBase EXCEPT !.op = "capturePane", !.session = session, !.window = window]

\* a message (tea.Msg): a key press or the result of a request
MsgBase ==
    [ type |-> "", key |-> "", runes |-> <<>>, alt |-> FALSE,
      err |-> NoErr, sessionErr |-> NoErr,
      envs |-> <<>>, templates |-> <<>>, theme |-> <<>>,
      names |-> <<>>, windows |-> <<>>,
      target |-> <<>>, env |-> NoEnv, envName |-> <<>>, direction |-> 0,
      name |-> <<>>, edited |-> FALSE, session |-> <<>>, killed |-> FALSE,
      environment |-> <<>>, window |-> <<>>, content |-> <<>>, process |-> <<>> ]

\* the keys whose tea.KeyMsg carries a rune (msg.String() is the rune itself)
RuneKeys == {"a", "b", "A", " ", "d", "x", "q", "j", "k", "h", "l", "H", "L", "t", "e",
             "c", "r", "1", "2", "3", "?", ";", "=", "|", ",", "-"}

KeyMsg(key) ==
    [MsgBase EXCEPT !.type = "key", !.key = key,
                    !.runes = IF key \in RuneKeys THEN <<key>> ELSE <<>>]

\* what Update returns: the new model, the requests issued, and whether it quit
R(m, cmds) == [m |-> m, cmds |-> cmds, quit |-> FALSE, panic |-> FALSE]
Quit(m) == [m |-> m, cmds |-> <<>>, quit |-> TRUE, panic |-> FALSE]
Panic(m) == [m |-> m, cmds |-> <<>>, quit |-> FALSE, panic |-> TRUE]

(***************************************************************************)
(* package ui: selection helpers                                           *)
(***************************************************************************)
currentEnvOk(m) ==
    /\ Len(m.environments) # 0
    /\ m.selectedEnv >= 0
    /\ m.selectedEnv < Len(m.environments)

currentEnv(m) == IF currentEnvOk(m) THEN m.environments[m.selectedEnv + 1] ELSE NoEnv

currentWindowNames(m) ==
    IF ~currentEnvOk(m) THEN <<>>
    ELSE LET session == SessionName(currentEnv(m).name) IN
         IF session \in DOMAIN m.sessionWindows /\ Len(m.sessionWindows[session]) > 0
         THEN m.sessionWindows[session]
         ELSE WindowNames(currentEnv(m))

currentTemplateOk(m) ==
    /\ Len(m.templates) # 0
    /\ m.selectedTemplate >= 0
    /\ m.selectedTemplate < Len(m.templates)

currentTemplate(m) ==
    IF currentTemplateOk(m) THEN m.templates[m.selectedTemplate + 1]
    ELSE Template(<<>>, <<>>)

moveEnv(m, delta) ==
    IF Len(m.environments) = 0
    THEN [m EXCEPT !.selectedEnv = 0, !.selectedWindow = 0]
    ELSE LET s1 == m.selectedEnv + delta
             s2 == IF s1 < 0 THEN 0 ELSE s1
             s3 == IF s2 >= Len(m.environments) THEN Len(m.environments) - 1 ELSE s2
         IN [m EXCEPT !.selectedEnv = s3, !.selectedWindow = 0]

moveWindow(m, delta) ==
    LET windows == currentWindowNames(m) IN
    IF Len(windows) = 0 THEN [m EXCEPT !.selectedWindow = 0]
    ELSE LET s1 == m.selectedWindow + delta
             s2 == IF s1 < 0 THEN 0 ELSE s1
             s3 == IF s2 >= Len(windows) THEN Len(windows) - 1 ELSE s2
         IN [m EXCEPT !.selectedWindow = s3]

moveTemplate(m, delta) ==
    IF Len(m.templates) = 0 THEN [m EXCEPT !.selectedTemplate = 0]
    ELSE LET s1 == m.selectedTemplate + delta
             s2 == IF s1 < 0 THEN 0 ELSE s1
             s3 == IF s2 >= Len(m.templates) THEN Len(m.templates) - 1 ELSE s2
         IN [m EXCEPT !.selectedTemplate = s3]

toggleFocusPane(m) ==
    IF m.focusPane = focusPaneEnvironments THEN [m EXCEPT !.focusPane = focusPaneWindows]
    ELSE IF m.focusPane = focusPaneWindows THEN [m EXCEPT !.focusPane = focusPaneTemplates]
    ELSE [m EXCEPT !.focusPane = focusPaneEnvironments]

parsePaneShortcutOk(key) == key \in {"1", "2", "3"}
parsePaneShortcut(key) ==
    IF key = "1" THEN focusPaneEnvironments
    ELSE IF key = "2" THEN focusPaneWindows
    ELSE IF key = "3" THEN focusPaneTemplates
    ELSE 0

focusedPaneStatus(pane) ==
    IF pane = focusPaneEnvironments THEN St("Focused [1] Sessions panel")
    ELSE IF pane = focusPaneWindows THEN St("Focused [2] Windows panel")
    ELSE IF pane = focusPaneTemplates THEN St("Focused [3] Templates panel")
    ELSE St("Focused panel")

\* the two clamps of an index into a list of n > 0 entries
clampIndex(i, n) == IF (IF i >= n THEN n - 1 ELSE i) < 0 THEN 0 ELSE (IF i >= n THEN n - 1 ELSE i)

normalizeWindowSelection(m, wins) ==
    IF Len(wins) = 0 THEN [m EXCEPT !.selectedWindow = 0]
    ELSE [m EXCEPT !.selectedWindow = clampIndex(m.selectedWindow, Len(wins))]

normalizeCurrentWindows(m) == normalizeWindowSelection(m, currentWindowNames(m))

\* normalizeSelection that leaves selectedEnv where it is
normalizeEnvSelectionKept(m) ==
    IF Len(m.environments) = 0 THEN [m EXCEPT !.selectedEnv = 0, !.selectedWindow = 0]
    ELSE m

normalizeEnvSelection(m) ==
    IF Len(m.environments) = 0 THEN [m EXCEPT !.selectedEnv = 0, !.selectedWindow = 0]
    ELSE normalizeCurrentWindows(
             [m EXCEPT !.selectedEnv = clampIndex(m.selectedEnv, Len(m.environments))])

normalizeTemplateSelection(m) ==
    IF Len(m.templates) = 0 THEN [m EXCEPT !.selectedTemplate = 0]
    ELSE [m EXCEPT !.selectedTemplate = clampIndex(m.selectedTemplate, Len(m.templates))]

normalizeSelection(m) == normalizeTemplateSelection(normalizeEnvSelection(m))

\* captureCurrentWindowCmd: the requests it yields (none for a nil tea.Cmd)
captureCurrentWindowCmd(m) ==
    IF ~currentEnvOk(m) THEN <<>>
    ELSE LET session == SessionName(currentEnv(m).name)
             windows == currentWindowNames(m)
         IN IF session \notin m.sessions THEN <<>>
            ELSE IF Len(windows) = 0 \/ m.selectedWindow >= Len(windows) THEN <<>>
            ELSE << capturePaneCmd(session, windows[m.selectedWindow + 1]) >>

\* splitPaneWidths: <<leftWidth, rightWidth>>
splitPaneWidths(total) ==
    LET l1 == IF total \div 3 < 28 THEN 28 ELSE total \div 3
        l2 == IF l1 > 44 THEN 44 ELSE l1
        r1 == total - l2
        squeezed == r1 < 28 /\ total >= 56
        r2 == IF squeezed THEN 28 ELSE r1
        l3 == IF squeezed THEN total - 28 ELSE l2
        r3 == IF r2 < 1 THEN 1 ELSE r2
        l4 == IF r2 < 1 THEN total - 1 ELSE l3
    IN << IF l4 < 1 THEN 1 ELSE l4, r3 >>

(***************************************************************************)
(* package ui: the theme picker                                            *)
(***************************************************************************)
\* currentThemeName that names the first theme of the catalog
currentThemeNameFirst(m) == defaultThemes[1]

currentThemeName(m) ==
    LET idx == IF m.themeIndex < 0 \/ m.themeIndex >= Len(defaultThemes) THEN 0
               ELSE m.themeIndex
    IN defaultThemes[idx + 1]

applyCurrentTheme(m) ==
    IF m.themeIndex < 0 \/ m.themeIndex >= Len(defaultThemes)
    THEN [m EXCEPT !.themeIndex = 0] ELSE m

themeIndexByNameOk(name) ==
    /\ TrimSpace(name) # <<>>
    /\ \E i \in 1..Len(defaultThemes) : EqualFold(TrimSpace(defaultThemes[i]), TrimSpace(name))

themeIndexByName(name) ==
    IF themeIndexByNameOk(name)
    THEN (CHOOSE i \in 1..Len(defaultThemes) :
            /\ EqualFold(TrimSpace(defaultThemes[i]), TrimSpace(name))
            /\ \A j \in 1..(i - 1) : ~EqualFold(TrimSpace(defaultThemes[j]), TrimSpace(name))) - 1
    ELSE 0

RECURSIVE filterThemesFrom(_, _)
filterThemesFrom(query, idx) ==
    IF idx >= Len(defaultThemes) THEN <<>>
    ELSE (IF query = <<>> \/ Contains(ToLower(defaultThemes[idx + 1]), query)
          THEN <<idx>> ELSE <<>>) \o filterThemesFrom(query, idx + 1)

filteredThemeIndices(m) == filterThemesFrom(ToLower(TrimSpace(m.themeQuery)), 0)

\* normalizeThemePickerCursor that clamps the cursor from below only
normalizeThemePickerCursorLow(m) ==
    LET indices == filteredThemeIndices(m) IN
    IF Len(indices) = 0 THEN [m EXCEPT !.themePickerCursor = 0]
    ELSE LET c1 == IF m.themePickerCursor < 0 THEN 0 ELSE m.themePickerCursor
         IN [m EXCEPT !.themePickerCursor = c1]

normalizeThemePickerCursor(m) ==
    LET indices == filteredThemeIndices(m) IN
    IF Len(indices) = 0 THEN [m EXCEPT !.themePickerCursor = 0]
    ELSE LET c1 == IF m.themePickerCursor < 0 THEN 0 ELSE m.themePickerCursor
             c2 == IF c1 >= Len(indices) THEN Len(indices) - 1 ELSE c1
         IN [m EXCEPT !.themePickerCursor = c2]

openThemePicker(m) ==
    LET m1 == [m EXCEPT !.showThemePicker = TRUE, !.showShortcuts = FALSE,
                        !.themeQuery = <<>>, !.themePickerCursor = 0]
        indices == filteredThemeIndices(m1)
        at == FirstIdx(indices, LAMBDA themeIdx : themeIdx = m.themeIndex)
    IN IF at = 0 THEN m1 ELSE [m1 EXCEPT !.themePickerCursor = at - 1]

updateThemePickerMode(m, msg) ==
    LET key == msg.key IN
    IF key = "esc"
    THEN R([m EXCEPT !.showThemePicker = FALSE, !.status = St("Theme picker closed.")], <<>>)
    ELSE IF key \in {"q", "ctrl+c"} THEN Quit(m)
    ELSE IF key \in {"up", "k"}
    THEN R(normalizeThemePickerCursor(
             [m EXCEPT !.themePickerCursor = m.themePickerCursor - 1]), <<>>)
    ELSE IF key \in {"down", "j"}
    THEN R(normalizeThemePickerCursor(
             [m EXCEPT !.themePickerCursor = m.themePickerCursor + 1]), <<>>)
    ELSE IF key \in {"backspace", "ctrl+h"}
    THEN R(normalizeThemePickerCursor(
             [m EXCEPT !.themeQuery = trimLastRune(m.themeQuery)]), <<>>)
    ELSE IF key = "ctrl+u"
    THEN R(normalizeThemePickerCursor([m EXCEPT !.themeQuery = <<>>]), <<>>)
    ELSE IF key = "enter"
    THEN LET indices == filteredThemeIndices(m) IN
         IF Len(indices) = 0
         THEN R([m EXCEPT !.status = St("No theme matches the search query.")], <<>>)
         ELSE IF m.themePickerCursor < 0 \/ m.themePickerCursor >= Len(indices)
         THEN Panic(m)   \* index out of range
         ELSE LET m1 == applyCurrentTheme(
                          [m EXCEPT !.themeIndex = indices[m.themePickerCursor + 1]])
                  themeName == currentThemeName(m1)
              IN R([m1 EXCEPT !.showThemePicker = FALSE,
                              !.status = StA("Theme: ", themeName)],
                   << saveThemePreferenceCmd(themeName) >>)
    ELSE IF Len(msg.runes) > 0 /\ ~msg.alt
    THEN R(normalizeThemePickerCursor([m EXCEPT !.themeQuery = m.themeQuery \o msg.runes]),
           <<>>)
    ELSE R(m, <<>>)

(***************************************************************************)
(* package ui: the create-environment form                                 *)
(***************************************************************************)
normalizeCreateTemplate(m) ==
    IF Len(m.templates) = 0 THEN [m EXCEPT !.createTemplate = 0]
    ELSE LET total == Len(m.templates) + 1
             c1 == IF m.createTemplate < 0 THEN 0 ELSE m.createTemplate
             c2 == IF c1 >= total THEN 0 ELSE c1
         IN [m EXCEPT !.createTemplate = c2]

defaultTemplateIndex(m) ==
    LET at == FirstIdx(m.templates, LAMBDA t : EqualFold(t.name, <<"d","e","f","a","u","l","t">>))
    IN IF at = 0 THEN 0 ELSE at - 1

isCustomTemplateSelected(m) ==
    IF Len(m.templates) = 0 THEN TRUE ELSE m.createTemplate >= Len(m.templates)

\* createTemplateOptions: the template names, then "custom"
createTemplateOptions(m) ==
    [i \in 1..Len(m.templates) |-> m.templates[i].name] \o << <<"c","u","s","t","o","m">> >>

moveCreateTemplate(m, delta) ==
    LET options == createTemplateOptions(m)
        c1 == m.createTemplate + delta
        c2 == IF c1 < 0 THEN Len(options) - 1 ELSE c1
        c3 == IF c2 >= Len(options) THEN 0 ELSE c2
        m1 == [m EXCEPT !.createTemplate = c3]
    IN IF ~isCustomTemplateSelected(m1) /\ m1.createField = createFieldCustomWindows
       THEN [m1 EXCEPT !.createField = createFieldTemplate] ELSE m1

createFieldOrder(m) ==
    <<createFieldName, createFieldRoot, createFieldTemplate>>
    \o (IF isCustomTemplateSelected(m) THEN <<createFieldCustomWindows>> ELSE <<>>)

shiftCreateField(m, direction) ==
    LET order == createFieldOrder(m)
        at == FirstIdx(order, LAMBDA f : f = m.createField)
        current == IF at = 0 THEN 0 ELSE at - 1
        c1 == current + direction
        c2 == IF c1 < 0 THEN Len(order) - 1 ELSE c1
        c3 == IF c2 >= Len(order) THEN 0 ELSE c2
    IN [m EXCEPT !.createField = order[c3 + 1]]

isCreateLastField(m) ==
    LET order == createFieldOrder(m) IN m.createField = order[Len(order)]

appendCreateField(m, s) ==
    IF m.createField = createFieldName THEN [m EXCEPT !.createName = m.createName \o s]
    ELSE IF m.createField = createFieldRoot THEN [m EXCEPT !.createRoot = m.createRoot \o s]
    ELSE IF m.createField = createFieldCustomWindows
    THEN [m EXCEPT !.createCustom = m.createCustom \o s]
    ELSE m

backspaceCreateField(m) ==
    IF m.createField = createFieldName
    THEN [m EXCEPT !.createName = trimLastRune(m.createName)]
    ELSE IF m.createField = createFieldRoot
    THEN [m EXCEPT !.createRoot = trimLastRune(m.createRoot)]
    ELSE IF m.createField = createFieldCustomWindows
    THEN [m EXCEPT !.createCustom = trimLastRune(m.createCustom)]
    ELSE m

clearCreateField(m) ==
    IF m.createField = createFieldName THEN [m EXCEPT !.createName = <<>>]
    ELSE IF m.createField = createFieldRoot THEN [m EXCEPT !.createRoot = <<>>]
    ELSE IF m.createField = createFieldCustomWindows THEN [m EXCEPT !.createCustom = <<>>]
    ELSE m

\* resolveCreateWindows that drops the error of parseWindowSpec
resolveCreateWindowsUnchecked(m) ==
    IF isCustomTemplateSelected(m)
    THEN [windows |-> parseWindowSpec(m.createCustom).windows, err |-> NoErr]
    ELSE IF m.createTemplate < 0 \/ m.createTemplate >= Len(m.templates)
    THEN [windows |-> <<>>, err |-> Err("selected template is invalid", <<>>)]
    ELSE [windows |-> cloneWindowTemplates(m.templates[m.createTemplate + 1].windows),
          err |-> NoErr]

\* resolveCreateWindows: [windows, err]
resolveCreateWindows(m) ==
    IF isCustomTemplateSelected(m) THEN parseWindowSpec(m.createCustom)
    ELSE IF m.createTemplate < 0 \/ m.createTemplate >= Len(m.templates)
    THEN [windows |-> <<>>, err |-> Err("selected template is invalid", <<>>)]
    ELSE [windows |-> cloneWindowTemplates(m.templates[m.createTemplate + 1].windows),
          err |-> NoErr]

updateCreateMode(m, msg) ==
    LET key == msg.key IN
    IF key = "ctrl+c" THEN Quit(m)
    ELSE IF key = "esc"
    THEN R([m EXCEPT !.createMode = FALSE, !.createField = createFieldName,
                     !.createName = <<>>, !.createRoot = <<>>,
                     !.createTemplate = defaultTemplateIndex(m), !.createCustom = <<>>,
                     !.status = St("Create canceled.")], <<>>)
    ELSE IF key \in {"tab", "down"} THEN R(shiftCreateField(m, 1), <<>>)
    ELSE IF key \in {"shift+tab", "up"} THEN R(shiftCreateField(m, -1), <<>>)
    ELSE IF key = "left"
    THEN R(IF m.createField = createFieldTemplate THEN moveCreateTemplate(m, -1) ELSE m, <<>>)
    ELSE IF key = "right"
    THEN R(IF m.createField = createFieldTemplate THEN moveCreateTemplate(m, 1) ELSE m, <<>>)
    ELSE IF key \in {"backspace", "ctrl+h"} THEN R(backspaceCreateField(m), <<>>)
    ELSE IF key = "ctrl+u" THEN R(clearCreateField(m), <<>>)
    ELSE IF key = "enter"
    THEN IF ~isCreateLastField(m) THEN R(shiftCreateField(m, 1), <<>>)
         ELSE LET name == TrimSpace(m.createName)
                  root == TrimSpace(m.createRoot)
                  res  == resolveCreateWindows(m)
              IN IF name = <<>>
                 THEN R([m EXCEPT !.createField = createFieldName,
                                  !.status = St("Name is required.")], <<>>)
                 ELSE IF root = <<>>
                 THEN R([m EXCEPT !.createField = createFieldRoot,
                                  !.status = St("Root path is required.")], <<>>)
                 ELSE IF res.err # NoErr
                 THEN R([m EXCEPT !.status = StE("Template error: ", res.err),
                                  !.createField = IF isCustomTemplateSelected(m)
                                                  THEN createFieldCustomWindows
                                                  ELSE m.createField], <<>>)
                 ELSE R([m EXCEPT !.status = St("Creating environment and tmux session...")],
                        << createEnvironmentCmd(name, root, res.windows) >>)
    ELSE IF Len(msg.runes) > 0 /\ ~msg.alt THEN R(appendCreateField(m, msg.runes), <<>>)
    ELSE R(m, <<>>)

(***************************************************************************)
(* package ui: the template form                                           *)
(***************************************************************************)
appendTemplateField(m, s) ==
    IF m.templateField = templateFieldName
    THEN [m EXCEPT !.templateName = m.templateName \o s]
    ELSE [m EXCEPT !.templateSpec = m.templateSpec \o s]

backspaceTemplateField(m) ==
    IF m.templateField = templateFieldName
    THEN [m EXCEPT !.templateName = trimLastRune(m.templateName)]
    ELSE [m EXCEPT !.templateSpec = trimLastRune(m.templateSpec)]

clearTemplateField(m) ==
    IF m.templateField = templateFieldName THEN [m EXCEPT !.templateName = <<>>]
    ELSE [m EXCEPT !.templateSpec = <<>>]

updateTemplateMode(m, msg) ==
    LET key == msg.key IN
    IF key = "ctrl+c" THEN Quit(m)
    ELSE IF key = "esc"
    THEN R([m EXCEPT !.templateMode = FALSE, !.templateEditing = FALSE,
                     !.templateOrigin = <<>>, !.templateField = templateFieldName,
                     !.templateName = <<>>, !.templateSpec = <<>>,
                     !.status = St("Template mode canceled.")], <<>>)
    ELSE IF key \in {"tab", "down", "up", "shift+tab"}
    THEN R([m EXCEPT !.templateField = IF m.templateField = templateFieldName
                                       THEN templateFieldWindows ELSE templateFieldName], <<>>)
    ELSE IF key \in {"backspace", "ctrl+h"} THEN R(backspaceTemplateField(m), <<>>)
    ELSE IF key = "ctrl+u" THEN R(clearTemplateField(m), <<>>)
    ELSE IF key = "enter"
    THEN IF m.templateField = templateFieldName
         THEN R([m EXCEPT !.templateField = templateFieldWindows], <<>>)
         ELSE LET name == TrimSpace(m.templateName)
                  res  == parseWindowSpec(m.templateSpec)
              IN IF name = <<>>
                 THEN R([m EXCEPT !.templateField = templateFieldName,
                                  !.status = St("Template name is required.")], <<>>)
                 ELSE IF res.err # NoErr
                 THEN R([m EXCEPT !.templateField = templateFieldWindows,
                                  !.status = StE("Template windows error: ", res.err)], <<>>)
                 ELSE R([m EXCEPT !.status = St("Saving template...")],
                        << saveTemplateCmd(IF m.templateEditing THEN m.templateOrigin
                                           ELSE <<>>, name, res.windows) >>)
    ELSE IF Len(msg.runes) > 0 /\ ~msg.alt THEN R(appendTemplateField(m, msg.runes), <<>>)
    ELSE R(m, <<>>)

(***************************************************************************)
(* package ui: Normal mode, the three panels                               *)
(***************************************************************************)
openCreateTemplateMode(m) ==
    [m EXCEPT !.templateMode = TRUE, !.createMode = FALSE,
              !.templateField = templateFieldName, !.templateName = <<>>,
              !.templateSpec = <<>>, !.templateEditing = FALSE, !.templateOrigin = <<>>,
              !.status = St("Template mode: name and window spec.")]

\* startEditTemplateMode that keeps the templateOrigin it finds
startEditTemplateModeNoOrigin(m) ==
    IF ~currentTemplateOk(m) THEN R([m EXCEPT !.status = St("No template selected.")], <<>>)
    ELSE LET tpl == currentTemplate(m) IN
         R([m EXCEPT !.templateMode = TRUE, !.createMode = FALSE,
                     !.templateField = templateFieldName, !.templateName = tpl.name,
                     !.templateSpec = formatWindowSpec(tpl.windows),
                     !.templateEditing = TRUE,
                     !.status = St("Edit template mode.")], <<>>)

startEditTemplateMode(m) ==
    IF ~currentTemplateOk(m) THEN R([m EXCEPT !.status = St("No template selected.")], <<>>)
    ELSE LET tpl == currentTemplate(m) IN
         R([m EXCEPT !.templateMode = TRUE, !.createMode = FALSE,
                     !.templateField = templateFieldName, !.templateName = tpl.name,
                     !.templateSpec = formatWindowSpec(tpl.windows),
                     !.templateEditing = TRUE, !.templateOrigin = tpl.name,
                     !.status = St("Edit template mode.")], <<>>)

startDeleteTemplate(m) ==
    IF ~currentTemplateOk(m) THEN R([m EXCEPT !.status = St("No template selected.")], <<>>)
    ELSE LET name == TrimSpace(currentTemplate(m).name) IN
         IF name = <<>>
         THEN R([m EXCEPT !.status = St("Selected template has empty name.")], <<>>)
         ELSE IF m.templateDeleteConfirm # name
         THEN R([m EXCEPT !.templateDeleteConfirm = name,
                          !.status = StA("Press d again to delete template: ", name)], <<>>)
         ELSE R([m EXCEPT !.templateDeleteConfirm = <<>>,
                          !.status = St("Deleting template...")],
                << deleteTemplateCmd(name) >>)

startAttachSelected(m) ==
    IF ~currentEnvOk(m) THEN R([m EXCEPT !.status = St("No environment selected.")], <<>>)
    ELSE LET windows == currentWindowNames(m)
             wName == IF Len(windows) > 0 /\ m.selectedWindow < Len(windows)
                      THEN windows[m.selectedWindow + 1] ELSE <<>>
         IN R([m EXCEPT !.status = St("Preparing tmux session...")],
              << prepareAttachCmd(currentEnv(m), wName) >>)

\* startMoveWindow without the tests for the first and the last window
startMoveWindowUnguarded(m, direction) ==
    IF ~currentEnvOk(m) THEN R([m EXCEPT !.status = St("No environment selected.")], <<>>)
    ELSE LET windows == currentWindowNames(m) IN
         IF Len(windows) < 2
         THEN R([m EXCEPT !.status = St("Need at least two windows to reorder.")], <<>>)
         ELSE IF m.selectedWindow < 0 \/ m.selectedWindow >= Len(windows)
         THEN R([m EXCEPT !.status = St("No window selected.")], <<>>)
         ELSE R([m EXCEPT !.status = St("Reordering window...")],
                << moveWindowOrderCmd(currentEnv(m).name, windows[m.selectedWindow + 1],
                                      direction) >>)

startMoveWindow(m, direction) ==
    IF ~currentEnvOk(m) THEN R([m EXCEPT !.status = St("No environment selected.")], <<>>)
    ELSE LET windows == currentWindowNames(m) IN
         IF Len(windows) < 2
         THEN R([m EXCEPT !.status = St("Need at least two windows to reorder.")], <<>>)
         ELSE IF m.selectedWindow < 0 \/ m.selectedWindow >= Len(windows)
         THEN R([m EXCEPT !.status = St("No window selected.")], <<>>)
         ELSE IF direction < 0 /\ m.selectedWindow = 0
         THEN R([m EXCEPT !.status = St("Window is already first.")], <<>>)
         ELSE IF direction > 0 /\ m.selectedWindow = Len(windows) - 1
         THEN R([m EXCEPT !.status = St("Window is already last.")], <<>>)
         ELSE R([m EXCEPT !.status = St("Reordering window...")],
                << moveWindowOrderCmd(currentEnv(m).name, windows[m.selectedWindow + 1],
                                      direction) >>)

startKillSession(m) ==
    IF ~currentEnvOk(m) THEN R([m EXCEPT !.status = St("No environment selected.")], <<>>)
    ELSE LET session == SessionName(currentEnv(m).name) IN
         IF session \notin m.sessions
         THEN R([m EXCEPT !.status = StA("Session is not running: ", session),
                          !.killConfirm = <<>>], <<>>)
         ELSE IF m.killConfirm # session
         THEN R([m EXCEPT !.killConfirm = session,
                          !.status = StA("Press x again to kill session: ", session)], <<>>)
         ELSE R([m EXCEPT !.killConfirm = <<>>, !.status = St("Killing session...")],
                << killSessionCmd(session) >>)

\* startDeleteEnvironment without the comparison with deleteConfirm
startDeleteEnvironmentUnconfirmed(m) ==
    IF ~currentEnvOk(m) THEN R([m EXCEPT !.status = St("No environment selected.")], <<>>)
    ELSE IF TrimSpace(currentEnv(m).name) = <<>>
    THEN R([m EXCEPT !.status = St("Selected environment has empty name.")], <<>>)
    ELSE R([m EXCEPT !.deleteConfirm = <<>>, !.status = St("Deleting environment...")],
           << deleteEnvironmentCmd(TrimSpace(currentEnv(m).name)) >>)

startDeleteEnvironment(m) ==
    IF ~currentEnvOk(m) THEN R([m EXCEPT !.status = St("No environment selected.")], <<>>)
    ELSE LET name == TrimSpace(currentEnv(m).name) IN
         IF name = <<>>
         THEN R([m EXCEPT !.status = St("Selected environment has empty name.")], <<>>)
         ELSE IF m.deleteConfirm # name
         THEN R([m EXCEPT !.deleteConfirm = name,
                          !.status = StA("Press d again to delete environment: ", name)], <<>>)
         ELSE R([m EXCEPT !.deleteConfirm = <<>>,
                          !.status = St("Deleting environment...")],
                << deleteEnvironmentCmd(name) >>)

updateEnvironmentPanelKey(m, key) ==
    IF key \in {"up", "k"}
    THEN LET m1 == moveEnv(m, -1) IN R(m1, captureCurrentWindowCmd(m1))
    ELSE IF key \in {"down", "j"}
    THEN LET m1 == moveEnv(m, 1) IN R(m1, captureCurrentWindowCmd(m1))
    ELSE IF key = "a"
    THEN R([m EXCEPT !.createMode = TRUE, !.templateMode = FALSE,
                     !.createField = createFieldName, !.createName = <<>>,
                     !.createRoot = <<>>, !.createTemplate = defaultTemplateIndex(m),
                     !.createCustom = <<>>,
                     !.status = St("Create mode: enter environment name and root path.")],
           <<>>)
    ELSE IF key = "t"
    THEN R([m EXCEPT !.status = St("Switch to [3] Templates panel for template actions")],
           <<>>)
    ELSE IF key = "x" THEN startKillSession(m)
    ELSE IF key = "d" THEN startDeleteEnvironment(m)
    ELSE IF key \in {"left", "right", "h", "l"}
    THEN R([m EXCEPT !.status = St("[1] Sessions panel focused")], <<>>)
    ELSE IF key \in {"H", "L"}
    THEN R([m EXCEPT !.status = St("Window reorder is available in [2] Windows panel")],
           <<>>)
    ELSE IF key = "enter" THEN startAttachSelected(m)
    ELSE R(m, <<>>)

updateWindowPanelKey(m, key) ==
    IF key \in {"left", "h", "up", "k"}
    THEN LET m1 == moveWindow(m, -1) IN R(m1, captureCurrentWindowCmd(m1))
    ELSE IF key \in {"right", "l", "down", "j"}
    THEN LET m1 == moveWindow(m, 1) IN R(m1, captureCurrentWindowCmd(m1))
    ELSE IF key \in {"x", "d"}
    THEN R([m EXCEPT !.status = St("Switch to [1] Sessions panel for this action")], <<>>)
    ELSE IF key = "a"
    THEN R([m EXCEPT !.status = St("Switch to [1] Sessions panel to create environments")],
           <<>>)
    ELSE IF key \in {"t", "e", "c"}
    THEN R([m EXCEPT !.status = St("Switch to [3] Templates panel for template actions")],
           <<>>)
    ELSE IF key = "H" THEN startMoveWindow(m, -1)
    ELSE IF key = "L" THEN startMoveWindow(m, 1)
    ELSE IF key = "enter" THEN startAttachSelected(m)
    ELSE R(m, <<>>)

updateTemplatesPanelKey(m, key) ==
    IF key \in {"up", "k"} THEN R(moveTemplate(m, -1), <<>>)
    ELSE IF key \in {"down", "j"} THEN R(moveTemplate(m, 1), <<>>)
    ELSE IF key = "a" THEN R(openCreateTemplateMode(m), <<>>)
    ELSE IF key \in {"e", "enter"} THEN startEditTemplateMode(m)
    ELSE IF key = "d" THEN startDeleteTemplate(m)
    ELSE IF key \in {"left", "right", "h", "l"}
    THEN R([m EXCEPT !.status = St("[3] Templates panel focused")], <<>>)
    ELSE IF key = "x"
    THEN R([m EXCEPT !.status = St("Session kill is available in [1] Sessions panel")], <<>>)
    ELSE R(m, <<>>)

\* Update, case tea.KeyMsg: the two global toggles
updateThemeToggleKey(m) ==
    IF m.showThemePicker
    THEN R([m EXCEPT !.showThemePicker = FALSE, !.status = St("Theme picker closed.")], <<>>)
    ELSE R([openThemePicker(m) EXCEPT
              !.status = St("Theme picker open. Type to filter, Enter to apply.")], <<>>)

updateShortcutsToggleKey(m) ==
    LET shown == ~m.showShortcuts IN
    R([m EXCEPT !.showThemePicker = FALSE, !.showShortcuts = shown,
                !.status = IF shown THEN St("Shortcuts open. Press ? or Esc to close.")
                           ELSE St("Shortcuts closed.")], <<>>)

\* Update, case tea.KeyMsg: the shortcuts overlay
\* a shortcuts overlay that lets the panel shortcuts through
updateShortcutsModePanels(m, key) ==
    IF key = "esc"
    THEN R([m EXCEPT !.showShortcuts = FALSE, !.status = St("Shortcuts closed.")], <<>>)
    ELSE IF key \in {"q", "ctrl+c"} THEN Quit(m)
    ELSE IF parsePaneShortcutOk(key) THEN R([m EXCEPT !.focusPane = parsePaneShortcut(key)], <<>>)
    ELSE R(m, <<>>)

updateShortcutsMode(m, key) ==
    IF key = "esc"
    THEN R([m EXCEPT !.showShortcuts = FALSE, !.status = St("Shortcuts closed.")], <<>>)
    ELSE IF key \in {"q", "ctrl+c"} THEN Quit(m)
    ELSE R(m, <<>>)

\* Update, case tea.KeyMsg: the confirmation tokens a Normal-mode key disarms
clearConfirmations(m, key) ==
    LET m1 == IF key # "x" THEN [m EXCEPT !.killConfirm = <<>>] ELSE m
    IN IF key # "d" THEN [m1 EXCEPT !.deleteConfirm = <<>>, !.templateDeleteConfirm = <<>>]
       ELSE m1

\* Update, case tea.KeyMsg: Normal mode
updateNormalMode(m0, key) ==
    LET m == clearConfirmations(m0, key) IN
    IF parsePaneShortcutOk(key)
    THEN LET m1 == [m EXCEPT !.focusPane = parsePaneShortcut(key),
                             !.status = focusedPaneStatus(parsePaneShortcut(key))]
         IN R(m1, captureCurrentWindowCmd(m1))
    ELSE IF key \in {"q", "ctrl+c"} THEN Quit(m)
    ELSE IF key = "tab"
    THEN LET m1 == toggleFocusPane(m)
             m2 == [m1 EXCEPT !.status = focusedPaneStatus(m1.focusPane)]
         IN R(m2, captureCurrentWindowCmd(m2))
    ELSE IF key = "r"
    THEN R([m EXCEPT !.status = St("Refreshing...")], <<loadConfigCmd, loadSessionsCmd>>)
    ELSE IF m.focusPane = focusPaneEnvironments THEN updateEnvironmentPanelKey(m, key)
    ELSE IF m.focusPane = focusPaneWindows THEN updateWindowPanelKey(m, key)
    ELSE updateTemplatesPanelKey(m, key)

\* Update, case tea.KeyMsg
updateKey(m, msg) ==
    LET key == msg.key IN
    IF key = "ctrl+t" THEN updateThemeToggleKey(m)
    ELSE IF key = "?" THEN updateShortcutsToggleKey(m)
    ELSE IF m.showThemePicker THEN updateThemePickerMode(m, msg)
    ELSE IF m.showShortcuts THEN updateShortcutsMode(m, key)
    ELSE IF m.createMode THEN updateCreateMode(m, msg)
    ELSE IF m.templateMode THEN updateTemplateMode(m, msg)
    ELSE updateNormalMode(m, key)

(***************************************************************************)
(* package ui: Update, the result messages                                 *)
(***************************************************************************)
selectEnvAt(m, at) ==
    IF at = 0 THEN m ELSE [m EXCEPT !.selectedEnv = at - 1, !.selectedWindow = 0]

applyPendingSelect(m) ==
    IF TrimSpace(m.pendingSelect) = <<>> THEN m
    ELSE [selectEnvAt(m, FirstIdx(m.environments,
                                  LAMBDA e : EqualFold(e.name, m.pendingSelect)))
            EXCEPT !.pendingSelect = <<>>]

selectTemplateAt(m, at) == IF at = 0 THEN m ELSE [m EXCEPT !.selectedTemplate = at - 1]

applyPendingTemplateSelect(m) ==
    IF TrimSpace(m.pendingTemplateSelect) = <<>> THEN m
    ELSE [selectTemplateAt(m, FirstIdx(m.templates,
                                       LAMBDA t : EqualFold(t.name, m.pendingTemplateSelect)))
            EXCEPT !.pendingTemplateSelect = <<>>]

\* the environments, the templates and the theme of a loaded document
applyLoadedConfig(m, msg) ==
    IF themeIndexByNameOk(msg.theme) /\ themeIndexByName(msg.theme) # m.themeIndex
    THEN applyCurrentTheme([m EXCEPT !.environments = msg.envs, !.templates = msg.templates,
                                     !.themeIndex = themeIndexByName(msg.theme)])
    ELSE [m EXCEPT !.environments = msg.envs, !.templates = msg.templates]

loadedStatus(m) ==
    IF Len(m.environments) = 0
    THEN [m EXCEPT !.status = St("No environments configured in ")]
    ELSE IF StatusHasLoadPrefix(m.status)
    THEN [m EXCEPT !.status = St("Ready. Enter attaches, Ctrl-b d detaches back here.")]
    ELSE m

onConfigLoaded(m, msg) ==
    IF msg.err # NoErr THEN R([m EXCEPT !.status = StE("Config error: ", msg.err)], <<>>)
    ELSE R(loadedStatus(normalizeSelection(applyPendingTemplateSelect(applyPendingSelect(
               normalizeCreateTemplate(applyLoadedConfig(m, msg)))))), <<>>)

withCapture(m) == R(m, captureCurrentWindowCmd(m))

onSessionsLoaded(m, msg) ==
    IF msg.err # NoErr THEN R([m EXCEPT !.status = StE("Tmux error: ", msg.err)], <<>>)
    ELSE withCapture(normalizeSelection(
             [m EXCEPT !.sessions = msg.names, !.sessionWindows = msg.windows]))

onPanePreview(m, msg) ==
    R([m EXCEPT !.previewContent = msg.content, !.previewSession = msg.session,
                !.previewWindow = msg.window, !.previewProcess = msg.process], <<>>)

onThemePersisted(m, msg) ==
    IF msg.err # NoErr
    THEN R([m EXCEPT !.status = StE("Theme applied but not saved: ", msg.err)], <<>>)
    ELSE R([m EXCEPT !.status = StA("Theme: ", msg.name)], <<>>)

onAttachReady(m, msg) ==
    IF msg.err # NoErr THEN R([m EXCEPT !.status = StE("Attach failed: ", msg.err)], <<>>)
    ELSE R([m EXCEPT !.status = St("Attached. Detach with Ctrl-b d to return.")],
           << execAttachCmd(msg.target) >>)

\* the attachDoneMsg handler that reloads the sessions after a clean exit only
onAttachDoneQuiet(m, msg) ==
    R([m EXCEPT !.status = IF msg.err # NoErr
                           THEN StE("Returned from tmux with error: ", msg.err)
                           ELSE St("Returned from tmux.")],
      IF msg.err # NoErr THEN <<>> ELSE << loadSessionsCmd >>)

onAttachDone(m, msg) ==
    R([m EXCEPT !.status = IF msg.err # NoErr
                           THEN StE("Returned from tmux with error: ", msg.err)
                           ELSE St("Returned from tmux.")],
      << loadSessionsCmd >>)

\* the environmentCreatedMsg handler that takes a session error for a failure
onEnvironmentCreatedStrict(m, msg) ==
    IF msg.err # NoErr THEN R([m EXCEPT !.status = StE("Create failed: ", msg.err)], <<>>)
    ELSE IF msg.sessionErr # NoErr
    THEN R([m EXCEPT !.status = StE("Create failed: ", msg.sessionErr)], <<>>)
    ELSE R([m EXCEPT !.createMode = FALSE, !.createName = <<>>, !.createRoot = <<>>,
                     !.createField = createFieldName,
                     !.createTemplate = defaultTemplateIndex(m), !.createCustom = <<>>,
                     !.pendingSelect = msg.env.name,
                     !.status = St("Environment and tmux session created. Press Enter to attach.")],
           <<loadConfigCmd, loadSessionsCmd>>)

onEnvironmentCreated(m, msg) ==
    IF msg.err # NoErr THEN R([m EXCEPT !.status = StE("Create failed: ", msg.err)], <<>>)
    ELSE R([m EXCEPT !.createMode = FALSE, !.createName = <<>>, !.createRoot = <<>>,
                     !.createField = createFieldName,
                     !.createTemplate = defaultTemplateIndex(m), !.createCustom = <<>>,
                     !.pendingSelect = msg.env.name,
                     !.status = IF msg.sessionErr # NoErr
                                THEN StE("Environment saved, but tmux session was not created: ",
                                         msg.sessionErr)
                                ELSE St("Environment and tmux session created. Press Enter to attach.")],
           <<loadConfigCmd, loadSessionsCmd>>)

onWindowMoved(m, msg) ==
    IF msg.err # NoErr THEN R([m EXCEPT !.status = StE("Reorder failed: ", msg.err)], <<>>)
    ELSE LET m1 == IF msg.direction < 0 THEN moveWindow(m, -1) ELSE moveWindow(m, 1) IN
         R([m1 EXCEPT !.pendingSelect = msg.envName,
                      !.status = IF msg.sessionErr # NoErr
                                 THEN StE("Template order saved, but live tmux reorder failed: ",
                                          msg.sessionErr)
                                 ELSE IF msg.direction < 0 THEN St("Window moved left.")
                                 ELSE St("Window moved right.")],
           <<loadConfigCmd, loadSessionsCmd>>)

onTemplateSaved(m, msg) ==
    IF msg.err # NoErr
    THEN R([m EXCEPT !.status = StE("Template save failed: ", msg.err)], <<>>)
    ELSE R([m EXCEPT !.templateMode = FALSE, !.templateEditing = FALSE,
                     !.templateOrigin = <<>>, !.templateField = templateFieldName,
                     !.templateName = <<>>, !.templateSpec = <<>>,
                     !.pendingTemplateSelect = msg.name,
                     !.status = IF msg.edited THEN StA("Template updated: ", msg.name)
                                ELSE StA("Template created: ", msg.name)],
           <<loadConfigCmd>>)

onTemplateDeleted(m, msg) ==
    IF msg.err # NoErr
    THEN R([m EXCEPT !.status = StE("Template delete failed: ", msg.err)], <<>>)
    ELSE R([m EXCEPT !.templateDeleteConfirm = <<>>,
                     !.status = StA("Template deleted: ", msg.name)], <<loadConfigCmd>>)

\* the sessionKilledMsg handler that clears killConfirm on an error too
onSessionKilledClearing(m, msg) ==
    IF msg.err # NoErr
    THEN R([m EXCEPT !.status = StE("Kill failed: ", msg.err), !.killConfirm = <<>>], <<>>)
    ELSE R([m EXCEPT !.status = StA("Killed session: ", msg.session), !.killConfirm = <<>>],
           <<loadSessionsCmd>>)

onSessionKilled(m, msg) ==
    IF msg.err # NoErr THEN R([m EXCEPT !.status = StE("Kill failed: ", msg.err)], <<>>)
    ELSE R([m EXCEPT !.status = StA("Killed session: ", msg.session), !.killConfirm = <<>>],
           <<loadSessionsCmd>>)

onEnvironmentDeleted(m, msg) ==
    IF msg.err # NoErr THEN R([m EXCEPT !.status = StE("Delete failed: ", msg.err)], <<>>)
    ELSE R([m EXCEPT !.deleteConfirm = <<>>,
                     !.status = IF msg.killed
                                THEN StA("Deleted environment and killed session ",
                                         msg.environment)
                                ELSE StA("Deleted environment ", msg.environment)],
           <<loadConfigCmd, loadSessionsCmd>>)

\* Model.Update
Update(m, msg) ==
    IF msg.type = "key" THEN updateKey(m, msg)
    ELSE IF msg.type = "configLoaded" THEN onConfigLoaded(m, msg)
    ELSE IF msg.type = "sessionsLoaded" THEN onSessionsLoaded(m, msg)
    ELSE IF msg.type = "panePreview" THEN onPanePreview(m, msg)
    ELSE IF msg.type = "themePersisted" THEN onThemePersisted(m, msg)
    ELSE IF msg.type = "attachReady" THEN onAttachReady(m, msg)
    ELSE IF msg.type = "attachDone" THEN onAttachDone(m, msg)
    ELSE IF msg.type = "environmentCreated" THEN onEnvironmentCreated(m, msg)
    ELSE IF msg.type = "windowMoved" THEN onWindowMoved(m, msg)
    ELSE IF msg.type = "templateSaved" THEN onTemplateSaved(m, msg)
    ELSE IF msg.type = "templateDeleted" THEN onTemplateDeleted(m, msg)
    ELSE IF msg.type = "sessionKilled" THEN onSessionKilled(m, msg)
    ELSE IF msg.type = "environmentDeleted" THEN onEnvironmentDeleted(m, msg)
    ELSE R(m, <<>>)

(***************************************************************************)
(* The requests.  A request runs off the event loop, in steps: a step that *)
(* reads the config file, and for the requests that modify it a later step *)
(* that writes the file.  Steps of different requests interleave.          *)
(***************************************************************************)
Msg(type) == [MsgBase EXCEPT !.type = type]
MsgErr(type, err) == [MsgBase EXCEPT !.type = type, !.err = err]

ErrRead == Err("read config file", <<>>)
ErrWrite == Err("write config file", <<>>)
ErrNoTmux == Err("tmux is not installed or not in PATH", <<>>)

\* the order of the names as they are, in place of the lowercased names
envLessCased(a, b) == StrLess(a.name, b.name)

\* loadConfigCmd: sort.Slice by lowercased name
envLess(a, b) == StrLess(ToLower(a.name), ToLower(b.name))

RECURSIVE insertEnv(_, _)
insertEnv(sorted, e) ==
    IF sorted = <<>> THEN <<e>>
    ELSE IF envLess(e, Head(sorted)) THEN <<e>> \o sorted
    ELSE <<Head(sorted)>> \o insertEnv(Tail(sorted), e)

RECURSIVE sortEnvs(_)
sortEnvs(s) ==
    IF s = <<>> THEN <<>> ELSE insertEnv(sortEnvs(SubSeq(s, 1, Len(s) - 1)), s[Len(s)])

\* loadConfigCmd: sort.SliceStable, "default" first, then by lowercased name
isDefaultName(name) == EqualFold(name, <<"d","e","f","a","u","l","t">>)

templateLess(a, b) ==
    IF isDefaultName(a.name) /\ ~isDefaultName(b.name) THEN TRUE
    ELSE IF ~isDefaultName(a.name) /\ isDefaultName(b.name) THEN FALSE
    ELSE StrLess(ToLower(a.name), ToLower(b.name))

RECURSIVE insertTemplate(_, _)
insertTemplate(sorted, t) ==
    IF sorted = <<>> THEN <<t>>
    ELSE IF templateLess(t, Head(sorted)) THEN <<t>> \o sorted
    ELSE <<Head(sorted)>> \o insertTemplate(Tail(sorted), t)

RECURSIVE sortTemplates(_)
sortTemplates(s) ==
    IF s = <<>> THEN <<>>
    ELSE insertTemplate(sortTemplates(SubSeq(s, 1, Len(s) - 1)), s[Len(s)])

\* the result of loadConfigCmd on the document read
loadConfigResult(doc) ==
    LET data == LoadAll(doc) IN
    [Msg("configLoaded") EXCEPT !.envs = sortEnvs(data.environments),
                                !.templates = sortTemplates(data.templates),
                                !.theme = TrimSpace(data.theme)]

\* the live tmux server: session name -> window names
HasSession(sessions, session) == session \in DOMAIN sessions

WithSession(sessions, session, windows) ==
    [s \in (DOMAIN sessions) \cup {session} |->
        IF s = session THEN windows ELSE sessions[s]]

WithoutSession(sessions, session) ==
    [s \in (DOMAIN sessions) \ {session} |-> sessions[s]]

\* EnsureSession that creates the session whether or not it exists
EnsureSessionAnew(sessions, env) ==
    WithSession(sessions, SessionName(env.name), WindowNames(env))

\* EnsureSession, when tmux succeeds
EnsureSession(sessions, env) ==
    IF HasSession(sessions, SessionName(env.name)) THEN sessions
    ELSE WithSession(sessions, SessionName(env.name), WindowNames(env))

\* HasWindow
HasWindow(sessions, session, window) ==
    /\ HasSession(sessions, session)
    /\ \E i \in 1..Len(sessions[session]) :
          TrimSpace(sessions[session][i]) = safeWindowName(window)

\* tmux swap-window -s session:a -t session:b
SwapNamed(windows, a, b) ==
    LET i == FirstIdx(windows, LAMBDA w : w = a)
        j == FirstIdx(windows, LAMBDA w : w = b)
    IN [k \in 1..Len(windows) |->
          IF k = i THEN windows[j] ELSE IF k = j THEN windows[i] ELSE windows[k]]

\* the result of loadSessionsCmd
loadSessionsResult(sessions) ==
    [Msg("sessionsLoaded") EXCEPT !.names = DOMAIN sessions, !.windows = sessions]

\* the result of capturePaneCmd: the pane's text stands for the window shown
capturePaneResult(sessions, c) ==
    LET shown == HasWindow(sessions, c.session, c.window) IN
    [Msg("panePreview") EXCEPT !.session = c.session, !.window = c.window,
                               !.content = IF shown THEN safeWindowName(c.window) ELSE <<>>,
                               !.process = IF shown THEN <<"s","h">> ELSE <<>>]

\* createEnvironmentCmd up to the duplicate check: [err, data, env]
\* createEnvironmentCmd comparing the names with == in place of EqualFold
createEnvironmentReadExact(c, doc) ==
    LET name == TrimSpace(c.name)
        root == normalizeRootPath(c.root)
        data == LoadAll(doc)
        windows == IF Len(c.windows) = 0 THEN DefaultWindows ELSE c.windows
        newEnv == Environment(name, root, cloneWindowTemplates(windows))
    IN IF name = <<>> THEN [err |-> Err("name is required", <<>>), data |-> NoData, env |-> NoEnv]
       ELSE IF root = <<>>
       THEN [err |-> Err("root path is required", <<>>), data |-> NoData, env |-> NoEnv]
       ELSE IF \E i \in 1..Len(data.environments) :
                  TrimSpace(data.environments[i].name) = name
       THEN [err |-> Err("environment already exists", name), data |-> NoData, env |-> NoEnv]
       ELSE [err |-> NoErr,
             data |-> [data EXCEPT !.environments = Append(data.environments, newEnv)],
             env |-> newEnv]

\* createEnvironmentCmd without the search for the name
createEnvironmentReadUnchecked(c, doc) ==
    LET name == TrimSpace(c.name)
        root == normalizeRootPath(c.root)
        data == LoadAll(doc)
        windows == IF Len(c.windows) = 0 THEN DefaultWindows ELSE c.windows
        newEnv == Environment(name, root, cloneWindowTemplates(windows))
    IN IF name = <<>> THEN [err |-> Err("name is required", <<>>), data |-> NoData, env |-> NoEnv]
       ELSE IF root = <<>>
       THEN [err |-> Err("root path is required", <<>>), data |-> NoData, env |-> NoEnv]
       ELSE IF FALSE
       THEN [err |-> Err("environment already exists", name), data |-> NoData, env |-> NoEnv]
       ELSE [err |-> NoErr,
             data |-> [data EXCEPT !.environments = Append(data.environments, newEnv)],
             env |-> newEnv]

createEnvironmentRead(c, doc) ==
    LET name == TrimSpace(c.name)
        root == normalizeRootPath(c.root)
        data == LoadAll(doc)
        windows == IF Len(c.windows) = 0 THEN DefaultWindows ELSE c.windows
        newEnv == Environment(name, root, cloneWindowTemplates(windows))
    IN IF name = <<>> THEN [err |-> Err("name is required", <<>>), data |-> NoData, env |-> NoEnv]
       ELSE IF root = <<>>
       THEN [err |-> Err("root path is required", <<>>), data |-> NoData, env |-> NoEnv]
       ELSE IF \E i \in 1..Len(data.environments) :
                  EqualFold(TrimSpace(data.environments[i].name), name)
       THEN [err |-> Err("environment already exists", name), data |-> NoData, env |-> NoEnv]
       ELSE [err |-> NoErr,
             data |-> [data EXCEPT !.environments = Append(data.environments, newEnv)],
             env |-> newEnv]

\* saveTemplateCmd whose search for the name does not skip the template edited
saveTemplateReadNoSkip(c, doc) ==
    LET originalName == TrimSpace(c.originalName)
        name == TrimSpace(c.name)
        data == LoadAll(doc)
        targetIdx == IF originalName = <<>> THEN 0
                     ELSE FirstIdx(data.templates,
                                   LAMBDA t : EqualFold(TrimSpace(t.name), originalName))
        template == Template(name, cloneWindowTemplates(c.windows))
    IN IF name = <<>>
       THEN [err |-> Err("template name is required", <<>>), data |-> NoData, edited |-> FALSE]
       ELSE IF Len(c.windows) = 0
       THEN [err |-> Err("template must contain at least one window", <<>>),
             data |-> NoData, edited |-> FALSE]
       ELSE IF originalName # <<>> /\ targetIdx = 0
       THEN [err |-> Err("template not found", originalName), data |-> NoData,
             edited |-> FALSE]
       ELSE IF \E i \in 1..Len(data.templates) :
                  EqualFold(TrimSpace(data.templates[i].name), name)
       THEN [err |-> Err("template already exists", name), data |-> NoData, edited |-> FALSE]
       ELSE [err |-> NoErr,
             data |-> [data EXCEPT !.templates =
                          IF targetIdx > 0 THEN [data.templates EXCEPT ![targetIdx] = template]
                          ELSE Append(data.templates, template)],
             edited |-> targetIdx > 0]

\* saveTemplateCmd up to the change of the list: [err, data, edited]
saveTemplateRead(c, doc) ==
    LET originalName == TrimSpace(c.originalName)
        name == TrimSpace(c.name)
        data == LoadAll(doc)
        targetIdx == IF originalName = <<>> THEN 0
                     ELSE FirstIdx(data.templates,
                                   LAMBDA t : EqualFold(TrimSpace(t.name), originalName))
        template == Template(name, cloneWindowTemplates(c.windows))
    IN IF name = <<>>
       THEN [err |-> Err("template name is required", <<>>), data |-> NoData, edited |-> FALSE]
       ELSE IF Len(c.windows) = 0
       THEN [err |-> Err("template must contain at least one window", <<>>),
             data |-> NoData, edited |-> FALSE]
       ELSE IF originalName # <<>> /\ targetIdx = 0
       THEN [err |-> Err("template not found", originalName), data |-> NoData,
             edited |-> FALSE]
       ELSE IF \E i \in 1..Len(data.templates) :
                  EqualFold(TrimSpace(data.templates[i].name), name) /\ i # targetIdx
       THEN [err |-> Err("template already exists", name), data |-> NoData, edited |-> FALSE]
       ELSE [err |-> NoErr,
             data |-> [data EXCEPT !.templates =
                          IF targetIdx > 0 THEN [data.templates EXCEPT ![targetIdx] = template]
                          ELSE Append(data.templates, template)],
             edited |-> targetIdx > 0]

\* deleteTemplateCmd up to the change of the list: [err, data, name]
deleteTemplateRead(c, doc) ==
    LET name == TrimSpace(c.name)
        data == LoadAll(doc)
        idx == FirstIdx(data.templates, LAMBDA t : EqualFold(TrimSpace(t.name), name))
    IN IF name = <<>>
       THEN [err |-> Err("template name is required", <<>>), data |-> NoData, name |-> <<>>]
       ELSE IF idx = 0
       THEN [err |-> Err("template not found", name), data |-> NoData, name |-> <<>>]
       ELSE [err |-> NoErr,
             data |-> [data EXCEPT !.templates = RemoveAt(data.templates, idx)],
             name |-> data.templates[idx].name]

\* deleteEnvironmentCmd up to the change of the list: [err, data, env]
deleteEnvironmentRead(c, doc) ==
    LET data == LoadAll(doc)
        idx == FirstIdx(data.environments,
                        LAMBDA e : EqualFold(TrimSpace(e.name), TrimSpace(c.name)))
    IN IF idx = 0
       THEN [err |-> Err("environment not found", c.name), data |-> NoData, env |-> NoEnv]
       ELSE [err |-> NoErr,
             data |-> [data EXCEPT !.environments = RemoveAt(data.environments, idx)],
             env |-> data.environments[idx]]

\* moveWindowOrderCmd up to the swap: [err, envs, env, source, destination]
moveWindowOrderRead(c, doc) ==
    LET envs == LoadAll(doc).environments
        envIdx == FirstIdx(envs, LAMBDA e : EqualFold(TrimSpace(e.name), TrimSpace(c.name)))
        env == envs[envIdx]
        targetWindow == normalizeWindowName(c.window)
        sourceIdx == FirstIdx(env.windows, LAMBDA w : normalizeWindowName(w.name) = targetWindow)
        destinationIdx == sourceIdx + c.direction
        swapped == [env.windows EXCEPT ![sourceIdx] = env.windows[destinationIdx],
                                       ![destinationIdx] = env.windows[sourceIdx]]
        fail(e) == [err |-> e, envs |-> <<>>, env |-> NoEnv, source |-> <<>>,
                    destination |-> <<>>]
    IN IF c.direction = 0 THEN fail(Err("direction must be non-zero", <<>>))
       ELSE IF envIdx = 0 THEN fail(Err("environment not found", c.name))
       ELSE IF Len(env.windows) < 2 THEN fail(Err("environment has fewer than 2 windows", env.name))
       ELSE IF sourceIdx = 0 THEN fail(Err("window not found in template", c.window))
       ELSE IF destinationIdx < 1 \/ destinationIdx > Len(env.windows)
       THEN fail(Err(IF c.direction < 0 THEN "window is already first"
                     ELSE "window is already last", <<>>))
       ELSE [err |-> NoErr,
             envs |-> [envs EXCEPT ![envIdx] = [env EXCEPT !.windows = swapped]],
             env |-> env,
             source |-> normalizeWindowName(env.windows[sourceIdx].name),
             destination |-> normalizeWindowName(env.windows[destinationIdx].name)]

(***************************************************************************)
(* The system: the event loop (Update, one message at a time), the         *)
(* requests in flight, the config file and the tmux server.                *)
(***************************************************************************)
VARIABLES
    m,      \* the Model held by the event loop
    file,   \* the JSON document in the config file
    live,   \* the tmux server: session name -> window names
    cmds,   \* the requests in flight (a bag)
    msgs,   \* the results not yet consumed by Update (a bag)
    run,    \* "running", "quit" after tea.Quit, "panic" after a runtime panic
    eval    \* a pure function under evaluation: its name, argument and result

vars == <<m, file, live, cmds, msgs, run, eval>>

\* no function is under evaluation while the program runs
NoEval == [fn |-> "", arg |-> <<>>, done |-> FALSE, out |-> <<>>]

RECURSIVE SeqToBag(_)
SeqToBag(s) == IF s = <<>> THEN EmptyBag ELSE SetToBag({Head(s)}) (+) SeqToBag(Tail(s))

InFlight == BagCardinality(cmds) + BagCardinality(msgs)

\* tea.ExecProcess holds the event loop until the attached process exits
Attached == \E c \in BagToSet(cmds) : c.op = "execAttach"

\* the event loop takes what Update returned: m, the requests issued, quit
Took(r) ==
    /\ m' = r.m
    /\ cmds' = cmds (+) SeqToBag(r.cmds)
    /\ run' = IF r.panic THEN "panic" ELSE IF r.quit THEN "quit" ELSE "running"
    /\ eval' = eval

Consume(msg) == Took(Update(m, msg))

\* the text buffers of the forms and of the theme picker
TextFields ==
    {"createName", "createRoot", "createCustom", "templateName", "templateSpec", "themeQuery"}

\* the bounds on a key press: a key that issues requests waits while maxInFlight
\* are pending, and a rune is typed only while the buffer it grows stays in texts
WithinBounds(r, maxInFlight, texts) ==
    /\ r.cmds = <<>> \/ InFlight + Len(r.cmds) <= maxInFlight
    /\ \A f \in TextFields :
          (m.createMode \/ m.templateMode \/ m.showThemePicker) /\ Len(r.m[f]) > Len(m[f])
              => r.m[f] \in texts

Pressed(r, maxInFlight, texts) == WithinBounds(r, maxInFlight, texts) /\ Took(r)

KeyPress(key, maxInFlight, texts) ==
    /\ run = "running"
    /\ ~Attached
    /\ Pressed(Update(m, KeyMsg(key)), maxInFlight, texts)
    /\ UNCHANGED <<file, live, msgs>>

\* a result reaches Update
Deliver(msg) ==
    /\ run = "running"
    /\ ~Attached
    /\ BagIn(msg, msgs)
    /\ Consume(msg)
    /\ msgs' = msgs (-) SetToBag({msg})
    /\ UNCHANGED <<file, live>>

\* a request ends with its one result message
Finish(c, msg) ==
    /\ cmds' = cmds (-) SetToBag({c})
    /\ msgs' = msgs (+) SetToBag({msg})
    /\ eval' = eval

\* a request moves on to its next step
Advance(c, next) ==
    /\ cmds' = (cmds (-) SetToBag({c})) (+) SetToBag({next})
    /\ msgs' = msgs
    /\ eval' = eval

Running(c, op, stage) ==
    /\ run = "running"
    /\ BagIn(c, cmds)
    /\ c.op = op
    /\ c.stage = stage

RunLoadConfig(c, ioOk) ==
    /\ Running(c, "loadConfig", "start")
    /\ Finish(c, IF ioOk THEN loadConfigResult(file) ELSE MsgErr("configLoaded", ErrRead))
    /\ UNCHANGED <<m, file, live, run>>

RunLoadSessions(c, tmuxOk) ==
    /\ Running(c, "loadSessions", "start")
    /\ Finish(c, IF tmuxOk THEN loadSessionsResult(live)
                 ELSE MsgErr("sessionsLoaded", Err("list tmux sessions", <<>>)))
    /\ UNCHANGED <<m, file, live, run>>

RunCapturePane(c) ==
    /\ Running(c, "capturePane", "start")
    /\ Finish(c, capturePaneResult(live, c))
    /\ UNCHANGED <<m, file, live, run>>

\* CheckTmuxExists and KillSession; killing an absent session succeeds
RunKillSession(c, tmuxOk) ==
    /\ Running(c, "killSession", "start")
    /\ IF ~tmuxOk
       THEN /\ Finish(c, [MsgErr("sessionKilled", Err("kill tmux session", c.session))
                            EXCEPT !.session = c.session])
            /\ live' = live
       ELSE /\ Finish(c, [Msg("sessionKilled") EXCEPT !.session = c.session])
            /\ live' = WithoutSession(live, c.session)
    /\ UNCHANGED <<m, file, run>>

RunSaveThemeRead(c, ioOk) ==
    /\ Running(c, "saveTheme", "start")
    /\ IF TrimSpace(c.theme) = <<>>
       THEN Finish(c, MsgErr("themePersisted", Err("theme name is required", <<>>)))
       ELSE IF ~ioOk
       THEN Finish(c, [MsgErr("themePersisted", ErrRead) EXCEPT !.name = TrimSpace(c.theme)])
       ELSE Advance(c, [c EXCEPT !.stage = "loaded",
                                 !.data = [LoadAll(file) EXCEPT !.theme = TrimSpace(c.theme)]])
    /\ UNCHANGED <<m, file, live, run>>

RunSaveThemeWrite(c, ioOk) ==
    /\ Running(c, "saveTheme", "loaded")
    /\ IF ioOk
       THEN /\ file' = SaveAll(c.data)
            /\ Finish(c, [Msg("themePersisted") EXCEPT !.name = TrimSpace(c.theme)])
       ELSE /\ file' = file
            /\ Finish(c, [MsgErr("themePersisted", ErrWrite) EXCEPT !.name = TrimSpace(c.theme)])
    /\ UNCHANGED <<m, live, run>>

RunCreateEnvironmentRead(c, ioOk) ==
    /\ Running(c, "createEnvironment", "start")
    /\ LET r == createEnvironmentRead(c, file) IN
       IF ~ioOk /\ TrimSpace(c.name) # <<>> /\ normalizeRootPath(c.root) # <<>>
       THEN Finish(c, MsgErr("environmentCreated", ErrRead))
       ELSE IF r.err # NoErr THEN Finish(c, MsgErr("environmentCreated", r.err))
       ELSE Advance(c, [c EXCEPT !.stage = "loaded", !.data = r.data, !.env = r.env])
    /\ UNCHANGED <<m, file, live, run>>

\* SaveAll, then CheckTmuxExists and EnsureSession
RunCreateEnvironmentWrite(c, ioOk, tmuxOk) ==
    /\ Running(c, "createEnvironment", "loaded")
    /\ IF ~ioOk
       THEN /\ Finish(c, MsgErr("environmentCreated", ErrWrite))
            /\ UNCHANGED <<file, live>>
       ELSE /\ file' = SaveAll(c.data)
            /\ IF tmuxOk \/ HasSession(live, SessionName(c.env.name))
               THEN /\ live' = EnsureSession(live, c.env)
                    /\ Finish(c, [Msg("environmentCreated") EXCEPT !.env = c.env])
               ELSE /\ live' = live
                    /\ Finish(c, [Msg("environmentCreated") EXCEPT
                                    !.env = c.env,
                                    !.sessionErr = Err("create tmux session",
                                                       SessionName(c.env.name))])
    /\ UNCHANGED <<m, run>>

RunSaveTemplateRead(c, ioOk) ==
    /\ Running(c, "saveTemplate", "start")
    /\ LET r == saveTemplateRead(c, file) IN
       IF ~ioOk /\ TrimSpace(c.name) # <<>> /\ Len(c.windows) # 0
       THEN Finish(c, MsgErr("templateSaved", ErrRead))
       ELSE IF r.err # NoErr THEN Finish(c, MsgErr("templateSaved", r.err))
       ELSE Advance(c, [c EXCEPT !.stage = "loaded", !.data = r.data, !.edited = r.edited])
    /\ UNCHANGED <<m, file, live, run>>

RunSaveTemplateWrite(c, ioOk) ==
    /\ Running(c, "saveTemplate", "loaded")
    /\ IF ioOk
       THEN /\ file' = SaveAll(c.data)
            /\ Finish(c, [Msg("templateSaved") EXCEPT !.name = TrimSpace(c.name),
                                                      !.edited = c.edited])
       ELSE /\ file' = file
            /\ Finish(c, MsgErr("templateSaved", ErrWrite))
    /\ UNCHANGED <<m, live, run>>

RunDeleteTemplateRead(c, ioOk) ==
    /\ Running(c, "deleteTemplate", "start")
    /\ LET r == deleteTemplateRead(c, file) IN
       IF ~ioOk /\ TrimSpace(c.name) # <<>>
       THEN Finish(c, MsgErr("templateDeleted", ErrRead))
       ELSE IF r.err # NoErr THEN Finish(c, MsgErr("templateDeleted", r.err))
       ELSE Advance(c, [c EXCEPT !.stage = "loaded", !.data = r.data, !.result = r.name])
    /\ UNCHANGED <<m, file, live, run>>

RunDeleteTemplateWrite(c, ioOk) ==
    /\ Running(c, "deleteTemplate", "loaded")
    /\ IF ioOk
       THEN /\ file' = SaveAll(c.data)
            /\ Finish(c, [Msg("templateDeleted") EXCEPT !.name = c.result])
       ELSE /\ file' = file
            /\ Finish(c, MsgErr("templateDeleted", ErrWrite))
    /\ UNCHANGED <<m, live, run>>

RunDeleteEnvironmentRead(c, ioOk) ==
    /\ Running(c, "deleteEnvironment", "start")
    /\ LET r == deleteEnvironmentRead(c, file) IN
       IF ~ioOk THEN Finish(c, MsgErr("environmentDeleted", ErrRead))
       ELSE IF r.err # NoErr THEN Finish(c, MsgErr("environmentDeleted", r.err))
       ELSE Advance(c, [c EXCEPT !.stage = "loaded", !.data = r.data, !.env = r.env])
    /\ UNCHANGED <<m, file, live, run>>

\* SaveAll, then the kill of the live session when there is one
RunDeleteEnvironmentWrite(c, ioOk, tmuxOk) ==
    /\ Running(c, "deleteEnvironment", "loaded")
    /\ LET session == SessionName(c.env.name) IN
       IF ~ioOk
       THEN /\ Finish(c, MsgErr("environmentDeleted", ErrWrite))
            /\ UNCHANGED <<file, live>>
       ELSE /\ file' = SaveAll(c.data)
            /\ IF ~HasSession(live, session)
               THEN /\ live' = live
                    /\ Finish(c, [Msg("environmentDeleted") EXCEPT
                                    !.environment = c.env.name, !.session = session,
                                    !.killed = FALSE])
               ELSE IF ~tmuxOk
               THEN /\ live' = live
                    /\ Finish(c, MsgErr("environmentDeleted",
                                        Err("kill tmux session", session)))
               ELSE /\ live' = WithoutSession(live, session)
                    /\ Finish(c, [Msg("environmentDeleted") EXCEPT
                                    !.environment = c.env.name, !.session = session,
                                    !.killed = TRUE])
    /\ UNCHANGED <<m, run>>

\* config.Load, the search and the swap in memory
RunMoveWindowOrderRead(c, ioOk) ==
    /\ Running(c, "moveWindowOrder", "start")
    /\ LET r == moveWindowOrderRead(c, file) IN
       IF ~ioOk /\ c.direction # 0 THEN Finish(c, MsgErr("windowMoved", ErrRead))
       ELSE IF r.err # NoErr THEN Finish(c, MsgErr("windowMoved", r.err))
       ELSE Advance(c, [c EXCEPT !.stage = "loaded",
                                 !.data = [NoData EXCEPT !.environments = r.envs],
                                 !.env = r.env, !.source = r.source,
                                 !.destination = r.destination])
    /\ UNCHANGED <<m, file, live, run>>

\* config.Save: LoadAll again, for the templates and the theme
RunMoveWindowOrderSave(c, ioOk) ==
    /\ Running(c, "moveWindowOrder", "loaded")
    /\ IF ~ioOk THEN Finish(c, MsgErr("windowMoved", ErrRead))
       ELSE Advance(c, [c EXCEPT !.stage = "saving",
                                 !.data = [LoadAll(file) EXCEPT
                                             !.environments = c.data.environments]])
    /\ UNCHANGED <<m, file, live, run>>

\* config.Save: SaveAll, then the swap of the live windows
RunMoveWindowOrderWrite(c, ioOk, tmuxOk) ==
    /\ Running(c, "moveWindowOrder", "saving")
    /\ LET session == SessionName(c.env.name)
           done == [Msg("windowMoved") EXCEPT !.envName = c.env.name,
                                              !.direction = c.direction]
       IN
       IF ~ioOk
       THEN /\ Finish(c, MsgErr("windowMoved", ErrWrite))
            /\ UNCHANGED <<file, live>>
       ELSE /\ file' = SaveAll(c.data)
            /\ IF ~HasSession(live, session)
               THEN /\ live' = live
                    /\ Finish(c, done)
               ELSE IF /\ tmuxOk
                       /\ \E i \in 1..Len(live[session]) : live[session][i] = c.source
                       /\ \E i \in 1..Len(live[session]) : live[session][i] = c.destination
               THEN /\ live' = [live EXCEPT ![session] =
                                   SwapNamed(live[session], c.source, c.destination)]
                    /\ Finish(c, done)
               ELSE /\ live' = live
                    /\ Finish(c, [done EXCEPT !.sessionErr =
                                    Err("swap live tmux windows", session)])
    /\ UNCHANGED <<m, run>>

\* CheckTmuxExists, EnsureSession, HasWindow
RunPrepareAttach(c, tmuxOk) ==
    /\ Running(c, "prepareAttach", "start")
    /\ LET session == SessionName(c.env.name)
           after == EnsureSession(live, c.env)
       IN
       IF ~tmuxOk
       THEN /\ live' = live
            /\ Finish(c, MsgErr("attachReady", ErrNoTmux))
       ELSE /\ live' = after
            /\ Finish(c, [Msg("attachReady") EXCEPT !.target =
                            IF TrimSpace(c.window) # <<>> /\ ~HasWindow(after, session, c.window)
                            THEN session ELSE AttachTarget(c.env, c.window)])
    /\ UNCHANGED <<m, file, run>>

\* the attached tmux client exits
RunExecAttach(c, ok) ==
    /\ Running(c, "execAttach", "start")
    /\ Finish(c, IF ok THEN Msg("attachDone")
                 ELSE MsgErr("attachDone", Err("exit status 1", <<>>)))
    /\ UNCHANGED <<m, file, live, run>>

(***************************************************************************)
(* The program from its start: NewModel, and Init's two loads in flight.   *)
(***************************************************************************)
sA == <<"a">>
sB == <<"b">>
sMidnight == <<"M","i","d","n","i","g","h","t">>
wEditor == Window(<<"e">>, <<"v">>, <<>>)
wShell == Window(<<"s">>, <<>>, <<>>)
tDefault == Template(<<"d","e","f","a","u","l","t">>, <<wEditor, wShell>>)

\* config files the program may find at its start
FileTwoEnvs == Data(<<Environment(sA, <<"r">>, <<wEditor, wShell>>),
                      Environment(sB, <<"r">>, <<wShell>>)>>, <<tDefault>>, sMidnight)
FileNoEnvs == Data(<<>>, <<tDefault>>, sMidnight)

\* tmux servers the program may find at its start
LiveNone == <<>>
LiveA == WithSession(<<>>, SessionName(sA), <<<<"e">>, <<"s">>>>)

Start(files, servers) ==
    /\ m = NewModel
    /\ file \in files
    /\ live \in servers
    /\ cmds = SeqToBag(<<loadConfigCmd, loadSessionsCmd>>)
    /\ msgs = EmptyBag
    /\ run = "running"
    /\ eval = NoEval

\* Spec: the Environments and Windows panels in Normal mode, the delete
\* confirmation, the shortcuts overlay and the requests they issue, with a tmux
\* that may fail
MaxInFlight == 1
NoTexts == {<<>>}
NavKeys == {"d", "j", "1", "2", "?"}

Init == Start({FileTwoEnvs}, {LiveA})

Press == \E key \in NavKeys : KeyPress(key, MaxInFlight, NoTexts)

Receive == \E msg \in BagToSet(msgs) : Deliver(msg)

Next ==
    \/ Press
    \/ Receive
    \/ \E c \in BagToSet(cmds) : RunLoadConfig(c, TRUE)
    \/ \E c \in BagToSet(cmds) : RunLoadSessions(c, TRUE)
    \/ \E c \in BagToSet(cmds) : RunCapturePane(c)
    \/ \E c \in BagToSet(cmds) : RunDeleteEnvironmentRead(c, TRUE)
    \/ \E c \in BagToSet(cmds), tmuxOk \in BOOLEAN : RunDeleteEnvironmentWrite(c, TRUE, tmuxOk)

Spec == Init /\ [][Next]_vars

NormalMode(mm) ==
    ~mm.showThemePicker /\ ~mm.showShortcuts /\ ~mm.createMode /\ ~mm.templateMode

\* the step issues a request of this kind
Issues(op) ==
    \E c \in BagToSet(cmds') :
        c.op = op /\ c.stage = "start" /\ CopiesIn(c, cmds') > CopiesIn(c, cmds)

\* the step delivers to the event loop one result of this kind
Reports(msg) == CopiesIn(msg, msgs') > CopiesIn(msg, msgs)

HasEnvNamed(doc, name) ==
    \E i \in 1..Len(doc.environments) : doc.environments[i].name = name

\* the Environments panel has the keys, and an environment with a name is selected
OnEnvironment(mm) ==
    /\ NormalMode(mm)
    /\ mm.focusPane = focusPaneEnvironments
    /\ currentEnvOk(mm)
    /\ TrimSpace(currentEnv(mm).name) # <<>>

\* C1: a delete-environment request is issued only by a press of 'd' in Normal
\* mode on the Environments panel while deleteConfirm is the trimmed name of the
\* selected environment; a press of 'd' there while deleteConfirm differs sets
\* deleteConfirm to that name, issues nothing and leaves the environments, in
\* memory and on disk, as they were.
C1_DeleteNeedsArmedPress ==
    [][/\ Issues("deleteEnvironment")
           => /\ KeyPress("d", MaxInFlight, NoTexts)
              /\ OnEnvironment(m)
              /\ m.deleteConfirm = TrimSpace(currentEnv(m).name)
       /\ (/\ KeyPress("d", MaxInFlight, NoTexts)
           /\ OnEnvironment(m)
           /\ m.deleteConfirm # TrimSpace(currentEnv(m).name))
           => /\ m'.deleteConfirm = TrimSpace(currentEnv(m).name)
              /\ cmds' = cmds
              /\ m'.environments = m.environments
              /\ file' = file]_vars

\* C1's case: the second press on "b" has issued the request and cleared the
\* token, after the first press armed it
C1_Witness ==
    /\ \E c \in BagToSet(cmds) : c.op = "deleteEnvironment" /\ c.name = sB
    /\ m.deleteConfirm = <<>>
    /\ HasEnvNamed(file, sB)

\* C2: once deleteConfirm is armed, a press of any key other than 'd' clears it.
C2_OtherKeyDisarms ==
    [][\A key \in NavKeys \ {"d"} :
          m.deleteConfirm # <<>> /\ KeyPress(key, MaxInFlight, NoTexts)
              => m'.deleteConfirm = <<>>]_vars

\* C3: when a delete-environment request has removed the environment from the
\* configuration file, its result names the deleted environment and has no error.
C3_KillIsBestEffort ==
    [][\A c \in BagToSet(cmds) :
          (/\ c.op = "deleteEnvironment"
           /\ CopiesIn(c, cmds') < CopiesIn(c, cmds)
           /\ HasEnvNamed(file, c.env.name)
           /\ ~HasEnvNamed(file', c.env.name))
              => \E msg \in BagToSet(msgs') :
                    /\ Reports(msg)
                    /\ msg.type = "environmentDeleted"
                    /\ msg.err = NoErr
                    /\ msg.environment = c.env.name]_vars

\* the outcome of two results taken one after the other: the model, and the
\* requests issued by the two
ThenTook(r, msg) == [m |-> Update(r.m, msg).m, cmds |-> r.cmds \o Update(r.m, msg).cmds]

LoadView(r) ==
    << r.m.environments, r.m.templates, r.m.sessions, r.m.selectedEnv, r.m.selectedWindow,
       r.m.selectedTemplate, r.m.status, r.cmds >>

\* C7: for a successful config-load result and a successful session-load result
\* that wait for the event loop, taking the config first and taking the sessions
\* first end with the same environments, templates, sessions, selections, status
\* and pane-capture request.
C7_LoadsCommute ==
    \A c, s \in BagToSet(msgs) :
        (/\ c.type = "configLoaded" /\ c.err = NoErr
         /\ s.type = "sessionsLoaded" /\ s.err = NoErr)
            => LoadView(ThenTook(Update(m, c), s)) = LoadView(ThenTook(Update(m, s), c))

\* SpecForm: the create form on a configuration without environments, and
\* creations that overlap
MaxRacing == 2
FormTexts == {<<"a">>}
FormKeys == {"a", "enter"}

InitForm == Start({FileNoEnvs}, {LiveNone})

\* Enter is pressed in the form only: on a panel it attaches to the session
InForm(key) == key = "enter" => m.createMode

PressForm == \E key \in FormKeys : InForm(key) /\ KeyPress(key, MaxRacing, FormTexts)

NextForm ==
    \/ PressForm
    \/ Receive
    \/ \E c \in BagToSet(cmds) : RunLoadConfig(c, TRUE)
    \/ \E c \in BagToSet(cmds) : RunLoadSessions(c, TRUE)
    \/ \E c \in BagToSet(cmds) : RunCapturePane(c)
    \/ \E c \in BagToSet(cmds) : RunCreateEnvironmentRead(c, TRUE)
    \/ \E c \in BagToSet(cmds) : RunCreateEnvironmentWrite(c, TRUE, TRUE)

SpecForm == InitForm /\ [][NextForm]_vars

\* C5: the configuration file never holds two environments whose names are
\* equal ignoring case, whatever the requests and their interleaving.
C5_NamesUnique ==
    \A i, j \in 1..Len(file.environments) :
        i # j => ~EqualFold(TrimSpace(file.environments[i].name),
                            TrimSpace(file.environments[j].name))

\* C5's case: two requests for "a" were in flight together, both read the file
\* before either wrote it, both have reported success, and the file holds one "a"
C5_Witness ==
    /\ \E msg \in BagToSet(msgs) :
          /\ msg.type = "environmentCreated" /\ msg.err = NoErr /\ msg.env.name = sA
          /\ CopiesIn(msg, msgs) = 2
    /\ Len(file.environments) = 1
    /\ HasEnvNamed(file, sA)

\* C8: an environment-created result that arrives while the create form is open
\* with a name other than the one it was submitted with, a form the user has
\* opened or typed in since, leaves the form open and its buffers as they are.
C8_ResultKeepsNewerText ==
    [][\A msg \in BagToSet(msgs) :
          (/\ msg.type = "environmentCreated"
           /\ CopiesIn(msg, msgs') < CopiesIn(msg, msgs)
           /\ m.createMode
           /\ m.createName # msg.env.name)
              => /\ m'.createMode
                 /\ m'.createName = m.createName
                 /\ m'.createRoot = m.createRoot
                 /\ m'.createCustom = m.createCustom]_vars

\* SpecDuplicate: the create form on a configuration without environments or
\* with the one environment "A"
FileUpperA == Data(<<Environment(<<"A">>, <<"r">>, <<wShell>>)>>, <<tDefault>>, sMidnight)

InitDuplicate == Start({FileNoEnvs, FileUpperA}, {LiveNone})

PressDuplicate ==
    \E key \in FormKeys : InForm(key) /\ KeyPress(key, MaxInFlight, FormTexts)

NextDuplicate ==
    \/ PressDuplicate
    \/ Receive
    \/ \E c \in BagToSet(cmds) : RunLoadConfig(c, TRUE)
    \/ \E c \in BagToSet(cmds) : RunLoadSessions(c, TRUE)
    \/ \E c \in BagToSet(cmds) : RunCapturePane(c)
    \/ \E c \in BagToSet(cmds) : RunCreateEnvironmentRead(c, TRUE)
    \/ \E c \in BagToSet(cmds) : RunCreateEnvironmentWrite(c, TRUE, TRUE)

SpecDuplicate == InitDuplicate /\ [][NextDuplicate]_vars

\* the name is, ignoring case, the name of an environment of the document
NameTaken(doc, name) ==
    \E i \in 1..Len(doc.environments) :
        EqualFold(TrimSpace(doc.environments[i].name), TrimSpace(name))

\* C4: a create-environment request that finds its trimmed name, ignoring case,
\* among the environments of the configuration file ends with the error
\* "environment already exists" and leaves the file as it was.
C4_DuplicateCreateWritesNothing ==
    [][\A c \in BagToSet(cmds) :
          (/\ c.op = "createEnvironment" /\ c.stage = "start"
           /\ CopiesIn(c, cmds') < CopiesIn(c, cmds)
           /\ NameTaken(file, c.name))
              => /\ file' = file
                 /\ \E msg \in BagToSet(msgs') :
                       /\ Reports(msg)
                       /\ msg.type = "environmentCreated"
                       /\ msg.err = Err("environment already exists", TrimSpace(c.name))]_vars

\* C4's case: the request for "a" has ended with the error while the file holds "A"
C4_Witness ==
    /\ \E msg \in BagToSet(msgs) :
          msg.type = "environmentCreated" /\ msg.err = Err("environment already exists", sA)
    /\ file = FileUpperA

\* SpecRace: deletions of the two environments that overlap, without tmux sessions
RaceKeys == {"d", "j"}

InitRace == Start({FileTwoEnvs}, {LiveNone})

PressRace == \E key \in RaceKeys : KeyPress(key, MaxRacing, NoTexts)

NextRace ==
    \/ PressRace
    \/ Receive
    \/ \E c \in BagToSet(cmds) : RunLoadConfig(c, TRUE)
    \/ \E c \in BagToSet(cmds) : RunLoadSessions(c, TRUE)
    \/ \E c \in BagToSet(cmds) : RunDeleteEnvironmentRead(c, TRUE)
    \/ \E c \in BagToSet(cmds) : RunDeleteEnvironmentWrite(c, TRUE, TRUE)

SpecRace == InitRace /\ [][NextRace]_vars

\* C6: when two requests that were in flight together have both reported the
\* deletion of their environment, the configuration file holds neither of the two.
C6_BothWritesKept ==
    \A x, y \in BagToSet(msgs) :
        (/\ x.type = "environmentDeleted" /\ x.err = NoErr
         /\ y.type = "environmentDeleted" /\ y.err = NoErr
         /\ x.environment # y.environment)
            => ~HasEnvNamed(file, x.environment) /\ ~HasEnvNamed(file, y.environment)

\* SpecOverlay: the overlays and the two forms, opened and closed from the three panels
OverlayKeys == {"a", "?", "ctrl+t", "esc", "3"}

InitOverlay == Start({FileTwoEnvs}, {LiveNone})

PressOverlay == \E key \in OverlayKeys : KeyPress(key, MaxInFlight, FormTexts)

NextOverlay ==
    \/ PressOverlay
    \/ Receive
    \/ \E c \in BagToSet(cmds) : RunLoadConfig(c, TRUE)
    \/ \E c \in BagToSet(cmds) : RunLoadSessions(c, TRUE)

SpecOverlay == InitOverlay /\ [][NextOverlay]_vars

OverlaysOpen(mm) ==
    {f \in {"showThemePicker", "showShortcuts", "createMode", "templateMode"} : mm[f]}

\* C9: at most one of showThemePicker, showShortcuts, createMode and templateMode
\* is true.
C9_OverlaysExclusive == Cardinality(OverlaysOpen(m)) <= 1

\* C10: while the create form or the template form is open, a press of ctrl+t or
\* of '?' neither opens nor closes the theme picker or the shortcuts overlay.
C10_GlobalKeysOffInForms ==
    [][\A key \in {"ctrl+t", "?"} :
          (m.createMode \/ m.templateMode) /\ KeyPress(key, MaxInFlight, FormTexts)
              => /\ m'.showThemePicker = m.showThemePicker
                 /\ m'.showShortcuts = m.showShortcuts]_vars

\* C11: while the shortcuts overlay is shown, a press of a key other than esc,
\* '?', q and ctrl+c leaves the whole Model as it was and issues no request.
C11_ShortcutsIgnoreKeys ==
    [][\A key \in OverlayKeys \ {"esc", "?"} :
          m.showShortcuts /\ KeyPress(key, MaxInFlight, FormTexts)
              => m' = m /\ cmds' = cmds]_vars

\* SpecReorder: the Windows panel of an environment with two windows, and
\* reorder requests that overlap
ReorderKeys == {"2", "l", "H", "L"}

InitReorder == Start({FileTwoEnvs}, {LiveNone, LiveA})

PressReorder == \E key \in ReorderKeys : KeyPress(key, MaxRacing, NoTexts)

NextReorder ==
    \/ PressReorder
    \/ Receive
    \/ \E c \in BagToSet(cmds) : RunLoadConfig(c, TRUE)
    \/ \E c \in BagToSet(cmds) : RunLoadSessions(c, TRUE)
    \/ \E c \in BagToSet(cmds) : RunCapturePane(c)
    \/ \E c \in BagToSet(cmds) : RunMoveWindowOrderRead(c, TRUE)
    \/ \E c \in BagToSet(cmds) : RunMoveWindowOrderSave(c, TRUE)
    \/ \E c \in BagToSet(cmds) : RunMoveWindowOrderWrite(c, TRUE, TRUE)

SpecReorder == InitReorder /\ [][NextReorder]_vars

\* the Windows panel has the keys and the selected window is the first one (for
\* a move to the left) or the last one (for a move to the right)
SelectedAtEdge(mm, key) ==
    /\ NormalMode(mm)
    /\ mm.focusPane = focusPaneWindows
    /\ currentEnvOk(mm)
    /\ \/ key = "H" /\ mm.selectedWindow = 0
       \/ key = "L" /\ mm.selectedWindow = Len(currentWindowNames(mm)) - 1

\* in the document, the window the request names is the first one of its
\* environment (for a move to the left) or the last one (for a move to the right)
PersistedAtEdge(doc, c) ==
    \E i \in 1..Len(doc.environments) :
        LET windows == doc.environments[i].windows IN
        /\ EqualFold(TrimSpace(doc.environments[i].name), TrimSpace(c.name))
        /\ Len(windows) > 0
        /\ \/ /\ c.direction < 0
              /\ normalizeWindowName(windows[1].name) = normalizeWindowName(c.window)
           \/ /\ c.direction > 0
              /\ normalizeWindowName(windows[Len(windows)].name) = normalizeWindowName(c.window)
              /\ \A j \in 1..(Len(windows) - 1) :
                    normalizeWindowName(windows[j].name) # normalizeWindowName(c.window)

\* C12: 'H' on the first window and 'L' on the last window issue no request and
\* change the status only, to an error; a reorder request that finds its window
\* first (moving left) or last (moving right) in the file ends with an error and
\* leaves the file as it was; and a reorder result with an error changes the
\* status only, so that the selected window stays where it was.
C12_EdgeMoveRejected ==
    [][/\ \A key \in {"H", "L"} :
             KeyPress(key, MaxRacing, NoTexts) /\ SelectedAtEdge(m, key)
                 => /\ cmds' = cmds
                    /\ file' = file
                    /\ m' = [m EXCEPT !.status = m'.status]
                    /\ m'.status.text \in {"Window is already first.", "Window is already last.",
                                           "Need at least two windows to reorder."}
       /\ \A c \in BagToSet(cmds) :
             (/\ c.op = "moveWindowOrder" /\ c.stage = "start"
              /\ CopiesIn(c, cmds') < CopiesIn(c, cmds)
              /\ PersistedAtEdge(file, c))
                 => /\ file' = file
                    /\ \E msg \in BagToSet(msgs') :
                          /\ Reports(msg)
                          /\ msg.type = "windowMoved"
                          /\ msg.err # NoErr
       /\ \A msg \in BagToSet(msgs) :
             (/\ msg.type = "windowMoved" /\ msg.err # NoErr
              /\ CopiesIn(msg, msgs') < CopiesIn(msg, msgs))
                 => /\ cmds' = cmds
                    /\ m' = [m EXCEPT !.status = StE("Reorder failed: ", msg.err)]]_vars

\* C12's case: the second of two requests to move the first window right has
\* found it last in the file and ended with the error, and 'L' on the window,
\* last by then, was refused by the key handler
C12_Witness ==
    /\ \E msg \in BagToSet(msgs) :
          msg.type = "windowMoved" /\ msg.err = Err("window is already last", <<>>)
    /\ m.status = St("Window is already last.")

\* SpecFields: the create form, opened before or after the configuration has
\* loaded, and the moves between its fields and its template choices
FieldKeys == {"a", "tab", "right", "esc"}

InitFields == Start({FileNoEnvs}, {LiveNone})

PressFields == \E key \in FieldKeys : KeyPress(key, MaxInFlight, FormTexts)

NextFields ==
    \/ PressFields
    \/ Receive
    \/ \E c \in BagToSet(cmds) : RunLoadConfig(c, TRUE)
    \/ \E c \in BagToSet(cmds) : RunLoadSessions(c, TRUE)

SpecFields == InitFields /\ [][NextFields]_vars

\* C13: while the create form is open, createField is one of the fields of
\* createFieldOrder: it is the custom-window field only while the template
\* choice is "custom".
C13_FieldInOrder ==
    m.createMode =>
        \E i \in 1..Len(createFieldOrder(m)) : createFieldOrder(m)[i] = m.createField

\* SpecCreate: the create form filled in and submitted, with a template or with
\* custom windows, valid or not
CreateTexts == {<<"a">>, <<"=">>}
CreateKeys == {"a", "=", "tab", "right", "enter"}

InitCreate == Start({FileNoEnvs}, {LiveNone})

\* '=' is typed into the custom-window field only
InCustomField(key) ==
    key = "=" => m.createMode /\ m.createField = createFieldCustomWindows

PressCreate ==
    \E key \in CreateKeys :
        InForm(key) /\ InCustomField(key) /\ KeyPress(key, MaxInFlight, CreateTexts)

NextCreate ==
    \/ PressCreate
    \/ Receive
    \/ \E c \in BagToSet(cmds) : RunLoadConfig(c, TRUE)
    \/ \E c \in BagToSet(cmds) : RunLoadSessions(c, TRUE)
    \/ \E c \in BagToSet(cmds) : RunCapturePane(c)
    \/ \E c \in BagToSet(cmds) : RunCreateEnvironmentRead(c, TRUE)
    \/ \E c \in BagToSet(cmds), tmuxOk \in BOOLEAN : RunCreateEnvironmentWrite(c, TRUE, tmuxOk)

SpecCreate == InitCreate /\ [][NextCreate]_vars

\* the create form has the keys and its last field has the focus
OnLastCreateField(mm) ==
    /\ mm.createMode /\ ~mm.showThemePicker /\ ~mm.showShortcuts
    /\ mm.createField = createFieldOrder(mm)[Len(createFieldOrder(mm))]

\* the form cannot be submitted: a blank name, a blank root, or custom windows
\* that do not parse
CreateInvalid(mm) ==
    \/ TrimSpace(mm.createName) = <<>>
    \/ TrimSpace(mm.createRoot) = <<>>
    \/ isCustomTemplateSelected(mm) /\ parseWindowSpec(mm.createCustom).err # NoErr

\* the field the refusal points at
CreateOffendingField(mm) ==
    IF TrimSpace(mm.createName) = <<>> THEN createFieldName
    ELSE IF TrimSpace(mm.createRoot) = <<>> THEN createFieldRoot
    ELSE createFieldCustomWindows

\* C14: Enter on the last field of the create form with a blank name, a blank
\* root or custom windows that do not parse issues no request, keeps the form
\* open and its three buffers as typed, sets the status to the refusal, and puts
\* the focus on the name, else on the root, else on the custom-window field.
C14_InvalidCreateRefused ==
    [][(/\ KeyPress("enter", MaxInFlight, CreateTexts)
        /\ OnLastCreateField(m)
        /\ CreateInvalid(m))
           => /\ cmds' = cmds
              /\ m'.createMode
              /\ m'.createName = m.createName
              /\ m'.createRoot = m.createRoot
              /\ m'.createCustom = m.createCustom
              /\ m'.createField = CreateOffendingField(m)
              /\ m'.status.text \in {"Name is required.", "Root path is required.",
                                     "Template error: "}]_vars

\* C14's case: with a name and a root, Enter on the custom-window field holding
\* "=" was refused with the parser's error
C14_Witness ==
    /\ m.createMode
    /\ m.createName = <<"a">> /\ m.createRoot = <<"a">> /\ m.createCustom = <<"=">>
    /\ m.createField = createFieldCustomWindows
    /\ m.status.text = "Template error: "
    /\ cmds = EmptyBag

\* SpecTemplate: the Templates panel and the template form, opened for create
\* and for edit, and the save requests it issues
tA == Template(sA, <<wShell>>)
FileTwoTemplates == Data(<<>>, <<tDefault, tA>>, sMidnight)
TemplateTexts == {<<"a">>, <<"A">>}
TemplateKeys == {"3", "a", "A", "e", "j", "enter", "ctrl+u"}

InitTemplate == Start({FileNoEnvs, FileTwoTemplates}, {LiveNone})

\* the user goes to the Templates panel first
OnTemplates(key) == key # "3" => m.focusPane = focusPaneTemplates

PressTemplate ==
    \E key \in TemplateKeys : OnTemplates(key) /\ KeyPress(key, MaxInFlight, TemplateTexts)

NextTemplate ==
    \/ PressTemplate
    \/ Receive
    \/ \E c \in BagToSet(cmds) : RunLoadConfig(c, TRUE)
    \/ \E c \in BagToSet(cmds) : RunLoadSessions(c, TRUE)
    \/ \E c \in BagToSet(cmds) : RunSaveTemplateRead(c, TRUE)
    \/ \E c \in BagToSet(cmds) : RunSaveTemplateWrite(c, TRUE)

SpecTemplate == InitTemplate /\ [][NextTemplate]_vars

\* the template form has the keys and the window-spec field has the focus
OnTemplateSpecField(mm) ==
    /\ mm.templateMode /\ ~mm.showThemePicker /\ ~mm.showShortcuts /\ ~mm.createMode
    /\ mm.templateField = templateFieldWindows

TemplateValid(mm) ==
    /\ TrimSpace(mm.templateName) # <<>>
    /\ parseWindowSpec(mm.templateSpec).err = NoErr
    /\ Len(parseWindowSpec(mm.templateSpec).windows) >= 1

\* C15: Enter on the window-spec field of the template form with a name and a
\* spec that parses issues exactly one save request, for the trimmed name and the
\* parsed windows, whose original name is templateOrigin in a form opened for
\* edit and empty in a form opened for create; with a blank name or a spec that
\* does not parse it issues nothing and keeps the form open and its text. A form
\* opened for edit has for templateOrigin the name of the selected template, and
\* the form keeps templateEditing and templateOrigin for as long as it is open.
C15_TemplateSubmit ==
    [][/\ (KeyPress("enter", MaxInFlight, TemplateTexts) /\ OnTemplateSpecField(m))
           => IF TemplateValid(m)
              THEN \E c \in BagToSet(cmds') :
                      /\ cmds' = cmds (+) SetToBag({c})
                      /\ c.op = "saveTemplate" /\ c.stage = "start"
                      /\ c.originalName = (IF m.templateEditing THEN m.templateOrigin ELSE <<>>)
                      /\ c.name = TrimSpace(m.templateName)
                      /\ c.windows = parseWindowSpec(m.templateSpec).windows
              ELSE /\ cmds' = cmds
                   /\ m'.templateMode
                   /\ m'.templateName = m.templateName
                   /\ m'.templateSpec = m.templateSpec
       /\ (~m.templateMode /\ m'.templateMode)
           => IF m'.templateEditing
              THEN currentTemplateOk(m) /\ m'.templateOrigin = currentTemplate(m).name
              ELSE m'.templateOrigin = <<>>
       /\ (m.templateMode /\ m'.templateMode)
           => /\ m'.templateEditing = m.templateEditing
              /\ m'.templateOrigin = m.templateOrigin]_vars

\* C15's case: the form opened for edit on "a" and renamed to "A" has issued its
\* save request, with "a" for original name
C15_Witness ==
    \E c \in BagToSet(cmds) :
        /\ c.op = "saveTemplate" /\ c.originalName = sA /\ c.name = <<"A">>
        /\ m.templateMode /\ m.templateEditing
        /\ m.status = St("Saving template...")

\* the position in the list of the template a save request edits: the first one
\* named as its original name, 0 for a create or when there is none
SaveTarget(templates, c) ==
    IF TrimSpace(c.originalName) = <<>>
       \/ ~\E i \in 1..Len(templates) :
              EqualFold(TrimSpace(templates[i].name), TrimSpace(c.originalName))
    THEN 0
    ELSE CHOOSE i \in 1..Len(templates) :
            /\ EqualFold(TrimSpace(templates[i].name), TrimSpace(c.originalName))
            /\ \A j \in 1..(i - 1) :
                  ~EqualFold(TrimSpace(templates[j].name), TrimSpace(c.originalName))

\* the name of the request is, ignoring case, the name of a template of the list
\* other than the one it edits
SaveNameTaken(templates, c) ==
    \E i \in 1..Len(templates) :
        /\ i # SaveTarget(templates, c)
        /\ EqualFold(TrimSpace(templates[i].name), TrimSpace(c.name))

\* the step takes the request from this stage
Leaves(c, op, stage) ==
    c.op = op /\ c.stage = stage /\ CopiesIn(c, cmds') < CopiesIn(c, cmds)

\* C16: a save-template request whose name is, ignoring case, the name of a
\* template of the file other than the one it edits ends with an error and writes
\* nothing; otherwise an edit puts the new template at the index of the one
\* edited, which may have the same name in another case, and leaves the others,
\* a create appends the new template to the list, and the request writes that list.
C16_TemplateNamesChecked ==
    [][\A c \in BagToSet(cmds) :
          /\ Leaves(c, "saveTemplate", "start")
              => IF SaveNameTaken(file.templates, c)
                 THEN /\ file' = file
                      /\ cmds' = cmds (-) SetToBag({c})
                      /\ \E msg \in BagToSet(msgs') :
                            Reports(msg) /\ msg.type = "templateSaved" /\ msg.err # NoErr
                 ELSE IF TrimSpace(c.originalName) = <<>>
                 THEN \E d \in BagToSet(cmds') :
                         /\ d.op = "saveTemplate" /\ d.stage = "loaded"
                         /\ CopiesIn(d, cmds') > CopiesIn(d, cmds)
                         /\ d.data.templates =
                               Append(file.templates, Template(TrimSpace(c.name), c.windows))
                 ELSE SaveTarget(file.templates, c) > 0
                         => \E d \in BagToSet(cmds') :
                               /\ d.op = "saveTemplate" /\ d.stage = "loaded"
                               /\ CopiesIn(d, cmds') > CopiesIn(d, cmds)
                               /\ d.data.templates =
                                     [file.templates EXCEPT ![SaveTarget(file.templates, c)] =
                                         Template(TrimSpace(c.name), c.windows)]
          /\ Leaves(c, "saveTemplate", "loaded")
              => /\ file'.templates = c.data.templates
                 /\ \E msg \in BagToSet(msgs') :
                       /\ Reports(msg) /\ msg.type = "templateSaved" /\ msg.err = NoErr
                       /\ msg.name = TrimSpace(c.name)]_vars

\* C16's case: the template "a" was renamed to "A" in place, second in the list
\* after "default", and a request to create "a" then ended with the error
C16_Witness ==
    /\ Len(file.templates) = 2
    /\ file.templates[2].name = <<"A">>
    /\ \E msg \in BagToSet(msgs) :
          msg.type = "templateSaved" /\ msg.err = Err("template already exists", sA)

\* SpecFailing: requests of every kind, on a configuration file that cannot be
\* read or written once the program has started and a tmux whose commands fail,
\* but for the attach
FailingKeys == {"2", "3", "a", "d", "x", "L", "enter", "ctrl+t"}

InitFailing == Start({FileTwoEnvs}, {LiveA})

\* the theme picker is opened from the Environments panel, and the current theme
\* is applied again without a filter
PickerFromPanel(key) ==
    /\ key = "ctrl+t" => m.showThemePicker \/ (NormalMode(m) /\ m.focusPane = focusPaneEnvironments)
    /\ key = "a" => ~m.showThemePicker

PressFailing ==
    \E key \in FailingKeys : PickerFromPanel(key) /\ KeyPress(key, MaxInFlight, FormTexts)

NextFailing ==
    \/ PressFailing
    \/ Receive
    \/ \E c \in BagToSet(cmds), ioOk \in BOOLEAN : RunLoadConfig(c, ioOk)
    \/ \E c \in BagToSet(cmds), tmuxOk \in BOOLEAN : RunLoadSessions(c, tmuxOk)
    \/ \E c \in BagToSet(cmds) : RunCapturePane(c)
    \/ \E c \in BagToSet(cmds) : RunSaveThemeRead(c, FALSE)
    \/ \E c \in BagToSet(cmds) : RunCreateEnvironmentRead(c, FALSE)
    \/ \E c \in BagToSet(cmds) : RunSaveTemplateRead(c, FALSE)
    \/ \E c \in BagToSet(cmds) : RunDeleteTemplateRead(c, FALSE)
    \/ \E c \in BagToSet(cmds) : RunDeleteEnvironmentRead(c, FALSE)
    \/ \E c \in BagToSet(cmds) : RunMoveWindowOrderRead(c, FALSE)
    \/ \E c \in BagToSet(cmds) : RunKillSession(c, FALSE)
    \/ \E c \in BagToSet(cmds), tmuxOk \in BOOLEAN : RunPrepareAttach(c, tmuxOk)
    \/ \E c \in BagToSet(cmds), ok \in BOOLEAN : RunExecAttach(c, ok)

SpecFailing == InitFailing /\ [][NextFailing]_vars

\* the step hands this result to Update
Takes(msg) == CopiesIn(msg, msgs') < CopiesIn(msg, msgs)

\* C17: a result that carries an error changes no field of the Model other than
\* the status, and does not quit the program.
C17_ErrorsOnlySetStatus ==
    [][\A msg \in BagToSet(msgs) :
          Takes(msg) /\ msg.err # NoErr
              => /\ m' = [m EXCEPT !.status = m'.status]
                 /\ m'.status.err = msg.err
                 /\ run' = "running"]_vars

\* C17's case: the attached client has exited with an error, its result has
\* reached Update, and the program runs on
C17_Witness ==
    /\ m.status.text = "Returned from tmux with error: "
    /\ m.status.err # NoErr
    /\ run = "running"

\* C18: a create request that has written the environment and failed to create
\* its session reports the environment without error and leaves it in the file;
\* its result closes the form, marks the environment for selection, issues the
\* config load and the session load, sets the status to "saved, but tmux session
\* was not created" with the session's error, and leaves the file as written.
C18_SavedWithoutSession ==
    [][/\ \A c \in BagToSet(cmds) :
             \A msg \in BagToSet(msgs') :
                (/\ Leaves(c, "createEnvironment", "loaded")
                 /\ Reports(msg)
                 /\ msg.sessionErr # NoErr)
                    => /\ msg.type = "environmentCreated"
                       /\ msg.err = NoErr
                       /\ msg.env.name = TrimSpace(c.name)
                       /\ HasEnvNamed(file', TrimSpace(c.name))
       /\ \A msg \in BagToSet(msgs) :
             (/\ Takes(msg)
              /\ msg.type = "environmentCreated" /\ msg.err = NoErr
              /\ msg.sessionErr # NoErr)
                 => /\ ~m'.createMode
                    /\ m'.pendingSelect = msg.env.name
                    /\ cmds' = cmds (+) SetToBag({loadConfigCmd}) (+) SetToBag({loadSessionsCmd})
                    /\ m'.status = StE("Environment saved, but tmux session was not created: ",
                                       msg.sessionErr)
                    /\ file' = file
                    /\ HasEnvNamed(file', msg.env.name)]_vars

\* C18's case: "a" was created from the form, its session was not, and the
\* result has closed the form with the status that says both
C18_Witness ==
    /\ m.status.text = "Environment saved, but tmux session was not created: "
    /\ ~m.createMode
    /\ m.pendingSelect = sA
    /\ HasEnvNamed(file, sA)
    /\ ~HasSession(live, SessionName(sA))

\* the kind of result each kind of request reports
ResultType(op) ==
    CASE op = "loadConfig" -> "configLoaded"
      [] op = "loadSessions" -> "sessionsLoaded"
      [] op = "capturePane" -> "panePreview"
      [] op = "saveTheme" -> "themePersisted"
      [] op = "createEnvironment" -> "environmentCreated"
      [] op = "saveTemplate" -> "templateSaved"
      [] op = "killSession" -> "sessionKilled"
      [] op = "deleteTemplate" -> "templateDeleted"
      [] op = "deleteEnvironment" -> "environmentDeleted"
      [] op = "moveWindowOrder" -> "windowMoved"
      [] op = "prepareAttach" -> "attachReady"
      [] op = "execAttach" -> "attachDone"

\* the request goes on to a later stage of its work, and reports nothing yet
GoesOn(c) ==
    /\ msgs' = msgs
    /\ \E d \in BagToSet(cmds') :
          /\ d.op = c.op /\ d.stage # c.stage
          /\ cmds' = (cmds (-) SetToBag({c})) (+) SetToBag({d})

\* the request ends, with one result of its kind
EndsWithOneResult(c) ==
    /\ cmds' = cmds (-) SetToBag({c})
    /\ \E msg \in BagToSet(msgs') :
          /\ msg.type = ResultType(c.op)
          /\ msgs' = msgs (+) SetToBag({msg})

\* the kinds of request the program issues
RequestKinds ==
    {"loadConfig", "loadSessions", "capturePane", "saveTheme", "createEnvironment",
     "saveTemplate", "killSession", "deleteTemplate", "deleteEnvironment",
     "moveWindowOrder", "prepareAttach", "execAttach"}

\* a step of a request of one kind
RequestStepFailing(op) ==
    \E c \in BagToSet(cmds) :
        /\ c.op = op
        /\ \/ \E ioOk \in BOOLEAN : RunLoadConfig(c, ioOk)
           \/ \E tmuxOk \in BOOLEAN : RunLoadSessions(c, tmuxOk)
           \/ RunCapturePane(c)
           \/ RunSaveThemeRead(c, FALSE)
           \/ RunCreateEnvironmentRead(c, FALSE)
           \/ RunSaveTemplateRead(c, FALSE)
           \/ RunDeleteTemplateRead(c, FALSE)
           \/ RunDeleteEnvironmentRead(c, FALSE)
           \/ RunMoveWindowOrderRead(c, FALSE)
           \/ RunKillSession(c, FALSE)
           \/ \E tmuxOk \in BOOLEAN : RunPrepareAttach(c, tmuxOk)
           \/ \E ok \in BOOLEAN : RunExecAttach(c, ok)

\* SpecFailingFair: SpecFailing where every request in flight is run in the end:
\* each request is a goroutine of its own, which the scheduler does not starve
\* while requests of other kinds run
SpecFailingFair ==
    /\ InitFailing
    /\ [][NextFailing]_vars
    /\ \A op \in RequestKinds : WF_vars(RequestStepFailing(op))


\* a request leaves the requests in flight only by reporting one result of its
\* kind, and a result is reported only by a request that ends; the attach chain
\* issues one request per result
OneResultPerRequest ==
    [][/\ \A c \in BagToSet(cmds) :
             CopiesIn(c, cmds') < CopiesIn(c, cmds) => GoesOn(c) \/ EndsWithOneResult(c)
       /\ \A msg \in BagToSet(msgs') :
             Reports(msg) => \E c \in BagToSet(cmds) : EndsWithOneResult(c)
       /\ \A msg \in BagToSet(msgs) :
             /\ (Takes(msg) /\ msg.type = "attachReady" /\ msg.err = NoErr)
                    => cmds' = cmds (+) SetToBag({execAttachCmd(msg.target)})
             /\ (Takes(msg) /\ msg.type = "attachReady" /\ msg.err # NoErr)
                    => cmds' = cmds
             /\ (Takes(msg) /\ msg.type = "attachDone")
                    => cmds' = cmds (+) SetToBag({loadSessionsCmd})]_vars

PickerTexts == {<<"x">>, <<"1">>}
PickerKeys == {"ctrl+t", "j", "k", "x", "1", "ctrl+u", "backspace", "enter", "esc"}

InitPicker == Start({FileNoEnvs}, {LiveNone})

\* with the picker closed, the user opens it
InPicker(key) == key # "ctrl+t" => m.showThemePicker

PressPicker == \E key \in PickerKeys : InPicker(key) /\ KeyPress(key, MaxInFlight, PickerTexts)

NextPicker ==
    \/ PressPicker
    \/ Receive
    \/ \E c \in BagToSet(cmds) : RunLoadConfig(c, TRUE)
    \/ \E c \in BagToSet(cmds) : RunLoadSessions(c, TRUE)
    \/ \E c \in BagToSet(cmds) : RunSaveThemeRead(c, TRUE)
    \/ \E c \in BagToSet(cmds) : RunSaveThemeWrite(c, TRUE)

SpecPicker == InitPicker /\ [][NextPicker]_vars

\* C20: while the theme picker is open, themePickerCursor is a position of the
\* filtered list, or 0 when the list is empty, and Enter has never read past the
\* end of the list.
C20_PickerCursorValid ==
    /\ m.showThemePicker =>
          IF Len(filteredThemeIndices(m)) = 0 THEN m.themePickerCursor = 0
          ELSE m.themePickerCursor >= 0 /\ m.themePickerCursor < Len(filteredThemeIndices(m))
    /\ run # "panic"

\* C20's case: the cursor was moved down past the second theme, and the filter
\* "x" then left two themes and the cursor on the last of them
C20_Witness ==
    /\ m.showThemePicker
    /\ m.themeQuery = <<"x">>
    /\ Len(filteredThemeIndices(m)) = 2
    /\ m.themePickerCursor = 1

\* C21: in the theme picker, Enter with a match sets themeIndex to the catalog
\* index at the cursor, closes the picker and issues one persist request that
\* carries that theme's name; Enter with no match changes neither themeIndex nor
\* the picker and issues nothing; Esc closes the picker, keeps themeIndex and
\* issues nothing.
C21_PickerEnterAndEsc ==
    [][m.showThemePicker =>
          /\ KeyPress("enter", MaxInFlight, PickerTexts) =>
                IF Len(filteredThemeIndices(m)) > 0
                THEN /\ m'.themeIndex = filteredThemeIndices(m)[m.themePickerCursor + 1]
                     /\ ~m'.showThemePicker
                     /\ cmds' = cmds (+) SetToBag({saveThemePreferenceCmd(
                                                     defaultThemes[m'.themeIndex + 1])})
                ELSE /\ m'.themeIndex = m.themeIndex
                     /\ m'.showThemePicker
                     /\ cmds' = cmds
          /\ KeyPress("esc", MaxInFlight, PickerTexts) =>
                /\ ~m'.showThemePicker
                /\ m'.themeIndex = m.themeIndex
                /\ cmds' = cmds]_vars

\* C21's case: Enter on the second of the two themes that match "x" has closed
\* the picker, and the request that persists that theme is in flight
C21_Witness ==
    /\ ~m.showThemePicker
    /\ m.themeQuery = <<"x">>
    /\ m.themeIndex = filterThemesFrom(<<"x">>, 0)[2]
    /\ cmds = SetToBag({saveThemePreferenceCmd(defaultThemes[m.themeIndex + 1])})

(***************************************************************************)
(* Pure functions under evaluation: eval holds the function's name and     *)
(* argument, and its result once the function has been applied.            *)
(***************************************************************************)
\* the program is not running while a function is evaluated
Idle ==
    /\ m = NewModel
    /\ file = NoData
    /\ live = <<>>
    /\ cmds = EmptyBag
    /\ msgs = EmptyBag
    /\ run = "running"

\* the calls of fn on the arguments in args
Calls(fn, args) == {[fn |-> fn, arg |-> a, done |-> FALSE, out |-> <<>>] : a \in args}

\* the call of fn returns result
Returns(fn, result) ==
    /\ eval.fn = fn
    /\ ~eval.done
    /\ eval' = [eval EXCEPT !.done = TRUE, !.out = result]
    /\ UNCHANGED <<m, file, live, cmds, msgs, run>>

\* the strings of at most n characters of alphabet
Strs(alphabet, n) == UNION {[1..k -> alphabet] : k \in 0..n}

\* the sequences of at most n elements of set, the empty one left out or not
Lists(set, lo, n) == UNION {[1..k -> set] : k \in lo..n}

\* SpecCodec: formatWindowSpec, parseWindowSpec and parseWindowEntry on window
\* lists and on typed texts
MaxWindows == 2
MaxSpecLen == 5
MaxEntryLen == 6

ExampleSpec == <<"e","d","i","t","o","r","=","n","v","i","m"," ",".",";","t","e","r","m","i","n","a","l",";","l","a","z","y","g","i","t","=","l","a","z","y","g","i","t">>
ExampleEntries == {<<"a","|","b","|","c","|","d">>, <<"w","=","a","|","b","|","c","|","d">>, <<"a","|","b","|","c">>}

CodecWindows ==
    {Window(name, cmd, cwd) :
        name \in {<<"w">>, <<" ", "w">>},
        cmd \in {<<>>, <<"c">>, <<"c", " ">>, <<"c", "|", "d">>, <<"c", ";", "d">>, <<"c", ",", "d">>},
        cwd \in {<<>>, <<"p">>}}

CodecWindowLists == Lists(CodecWindows, 0, MaxWindows)
CodecSpecs == Strs({"a", "=", ";", ",", " "}, MaxSpecLen) \cup {ExampleSpec}
CodecEntries == Strs({"a", "=", "|"}, MaxEntryLen) \cup ExampleEntries

InitCodec ==
    /\ Idle
    /\ \/ eval \in Calls("formatWindowSpec", CodecWindowLists)
       \/ eval \in Calls("parseWindowSpec", CodecSpecs)
       \/ eval \in Calls("parseWindowEntry", CodecEntries)

\* the text formatWindowSpec returned is decoded
ParseFormatted ==
    /\ eval.fn = "formatWindowSpec"
    /\ eval.done
    /\ eval' = [fn |-> "roundTrip", arg |-> eval.arg, done |-> TRUE,
                out |-> parseWindowSpec(eval.out)]
    /\ UNCHANGED <<m, file, live, cmds, msgs, run>>

NextCodec ==
    \/ Returns("formatWindowSpec", formatWindowSpec(eval.arg))
    \/ ParseFormatted
    \/ Returns("parseWindowSpec", parseWindowSpec(eval.arg))
    \/ Returns("parseWindowEntry", parseWindowEntry(eval.arg))

SpecCodec == InitCodec /\ [][NextCodec]_vars

\* a window with its three fields trimmed
TrimmedWindow(w) == Window(TrimSpace(w.name), TrimSpace(w.cmd), TrimSpace(w.cwd))

\* C22: a window list (not empty, every window named) encoded with
\* formatWindowSpec and decoded with parseWindowSpec comes back without error,
\* with the same length and the same trimmed name, cmd and cwd in each position.
C22_RoundTrip ==
    /\ eval.fn = "roundTrip"
    /\ Len(eval.arg) > 0
    /\ \A i \in 1..Len(eval.arg) : TrimSpace(eval.arg[i].name) # <<>>
    => /\ eval.out.err = NoErr
       /\ Len(eval.out.windows) = Len(eval.arg)
       /\ \A i \in 1..Len(eval.arg) : eval.out.windows[i] = TrimmedWindow(eval.arg[i])

\* C23: parseWindowEntry fails on every entry that '|' separates into more than
\* three segments.
C23_ManySegmentsRejected ==
    /\ eval.fn = "parseWindowEntry"
    /\ eval.done
    /\ Len(Split(eval.arg, "|")) > 3
    => eval.out.err # NoErr

\* the entries of a ';'-separated spec: its segments that are not blank
SemicolonEntries(spec) == SelectSeq(Split(spec, ";"), LAMBDA e : TrimSpace(e) # <<>>)

\* name, or name=cmd: no '|', and a name that is not blank
PlainEntry(e) ==
    /\ ~ContainsRune(e, "|")
    /\ TrimSpace(IF ContainsRune(e, "=") THEN SubSeq(e, 1, IndexRune(e, "=") - 1) ELSE e) # <<>>

\* the window a plain entry stands for
PlainWindow(e) ==
    IF ContainsRune(e, "=")
    THEN Window(TrimSpace(SubSeq(e, 1, IndexRune(e, "=") - 1)),
                TrimSpace(SubSeq(e, IndexRune(e, "=") + 1, Len(e))), <<>>)
    ELSE Window(TrimSpace(e), <<>>, <<>>)

\* C24: a ';'-separated spec of plain entries decodes to one window per entry
\* that is not blank, in order: name=cmd gives that name and command and no cwd,
\* a bare token a window with a name only; and
\* "editor=nvim .;terminal;lazygit=lazygit" decodes to exactly (editor, "nvim .",
\* ""), (terminal, "", ""), (lazygit, "lazygit", "").
C24_DecodeSemicolonSpec ==
    /\ eval.fn = "parseWindowSpec" /\ eval.done
    => /\ /\ ContainsRune(eval.arg, ";")
          /\ SemicolonEntries(eval.arg) # <<>>
          /\ \A i \in 1..Len(SemicolonEntries(eval.arg)) : PlainEntry(SemicolonEntries(eval.arg)[i])
          => /\ eval.out.err = NoErr
             /\ Len(eval.out.windows) = Len(SemicolonEntries(eval.arg))
             /\ \A i \in 1..Len(eval.out.windows) :
                   eval.out.windows[i] = PlainWindow(SemicolonEntries(eval.arg)[i])
       /\ eval.arg = ExampleSpec
          => /\ eval.out.err = NoErr
             /\ eval.out.windows = << Window(<<"e","d","i","t","o","r">>, <<"n","v","i","m"," ",".">>, <<>>),
                                      Window(<<"t","e","r","m","i","n","a","l">>, <<>>, <<>>),
                                      Window(<<"l","a","z","y","g","i","t">>, <<"l","a","z","y","g","i","t">>, <<>>) >>

\* C24's case: the spec of the example has been decoded
C24_Witness ==
    /\ eval.fn = "parseWindowSpec"
    /\ eval.done
    /\ eval.arg = ExampleSpec
    /\ Len(eval.out.windows) = 3

\* SpecSession: SessionName on environment names
MaxNameLen == 4

ExampleName == <<"P","r","o","d"," ","A","P","I">>
SessionArgs == Strs({"A", "b", " ", "-"}, MaxNameLen) \cup {ExampleName}

InitSession == Idle /\ eval \in Calls("SessionName", SessionArgs)

NextSession == Returns("SessionName", SessionName(eval.arg))

SpecSession == InitSession /\ [][NextSession]_vars

\* C25: SessionName returns "ide" for a name that is empty or blank, and
\* otherwise "ide-" and the trimmed name, each letter in lower case and each
\* space a hyphen; "Prod API" gives "ide-prod-api".
C25_SessionName ==
    eval.fn = "SessionName" /\ eval.done
    => /\ IF \A i \in 1..Len(eval.arg) : eval.arg[i] = " "
          THEN eval.out = <<"i","d","e">>
          ELSE eval.out = <<"i","d","e","-">> \o
                   [i \in 1..Len(TrimSpace(eval.arg)) |->
                       IF TrimSpace(eval.arg)[i] = " " THEN "-"
                       ELSE LowerRune(TrimSpace(eval.arg)[i])]
       /\ eval.arg = ExampleName => eval.out = <<"i","d","e","-","p","r","o","d","-","a","p","i">>

\* C25's case: the session name of "Prod API" has been derived
C25_Witness ==
    /\ eval.fn = "SessionName"
    /\ eval.done
    /\ eval.arg = ExampleName
    /\ Len(eval.out) = 12

\* SpecNormalize: normalizeWindows on window lists, alone, a second time on its
\* own result, and as LoadAll and SaveAll apply it to a document
NormalizeWindows ==
    {Window(name, cmd, cwd) :
        name \in {<<>>, <<" ">>, <<"a">>, <<" ", "a", " ">>, <<"w","i","n","d","o","w","-","1">>},
        cmd \in {<<>>, <<" ", "c">>},
        cwd \in {<<>>, <<"p", " ">>}}

NormalizeWindowLists == Lists(NormalizeWindows, 0, MaxWindows)

DocumentWindowLists ==
    Lists({Window(<<>>, <<" ", "c">>, <<>>), Window(<<" ", "a", " ">>, <<>>, <<"p", " ">>),
           Window(<<"a">>, <<>>, <<>>)}, 0, MaxWindows)

Documents ==
    {Data(envs, tpls, <<>>) :
        envs \in Lists({Environment(<<" ", "e">>, <<"r">>, ws) : ws \in DocumentWindowLists}, 0, 1),
        tpls \in Lists({Template(<<"t", " ">>, ws) : ws \in DocumentWindowLists}, 0, 1)}

InitNormalize ==
    /\ Idle
    /\ \/ eval \in Calls("normalizeWindows", NormalizeWindowLists)
       \/ eval \in Calls("LoadAll", Documents)
       \/ eval \in Calls("SaveAll", Documents)

\* a normalized list is normalized again
NormalizeAgain ==
    /\ eval.fn = "normalizeWindows"
    /\ eval.done
    /\ eval' = [fn |-> "normalizeAgain", arg |-> eval.out, done |-> TRUE,
                out |-> normalizeWindows(eval.out)]
    /\ UNCHANGED <<m, file, live, cmds, msgs, run>>

NextNormalize ==
    \/ Returns("normalizeWindows", normalizeWindows(eval.arg))
    \/ NormalizeAgain
    \/ Returns("LoadAll", LoadAll(eval.arg))
    \/ Returns("SaveAll", SaveAll(eval.arg))

SpecNormalize == InitNormalize /\ [][NextNormalize]_vars

\* C26: the names of a normalized window list are unique within the list.
C26_NamesUniqueInList ==
    eval.fn = "normalizeWindows" /\ eval.done
    => \A i, j \in 1..Len(eval.out) : eval.out[i].name = eval.out[j].name => i = j

\* a window with a name, and no space around its name, cmd and cwd
NormalWindow(w) ==
    /\ w.name # <<>>
    /\ TrimSpace(w.name) = w.name
    /\ TrimSpace(w.cmd) = w.cmd
    /\ TrimSpace(w.cwd) = w.cwd

NormalWindows(windows) == \A i \in 1..Len(windows) : NormalWindow(windows[i])

\* C27: every window of a normalized list, and of every environment and template
\* of a loaded or saved document, has a name and no space around its name, cmd
\* and cwd; a blank name has become "window-N", N its position from 1; and a
\* normalized list normalized again is unchanged.
C27_Normalized ==
    /\ eval.fn = "normalizeWindows" /\ eval.done
       => /\ NormalWindows(eval.out)
          /\ Len(eval.arg) > 0 =>
                /\ Len(eval.out) = Len(eval.arg)
                /\ \A i \in 1..Len(eval.arg) :
                      /\ eval.out[i].cmd = TrimSpace(eval.arg[i].cmd)
                      /\ eval.out[i].cwd = TrimSpace(eval.arg[i].cwd)
                      /\ eval.out[i].name =
                            IF TrimSpace(eval.arg[i].name) = <<>>
                            THEN <<"w","i","n","d","o","w","-">> \o <<Digits[i + 1]>>
                            ELSE TrimSpace(eval.arg[i].name)
    /\ eval.fn = "normalizeAgain" => eval.out = eval.arg
    /\ eval.fn \in {"LoadAll", "SaveAll"} /\ eval.done
       => /\ \A i \in 1..Len(eval.out.environments) :
                NormalWindows(eval.out.environments[i].windows)
          /\ \A i \in 1..Len(eval.out.templates) :
                NormalWindows(eval.out.templates[i].windows)

\* C27's case: a list whose second window had a blank name and space around its
\* cmd has been normalized, and normalized again
C27_Witness ==
    /\ eval.fn = "normalizeAgain"
    /\ Len(eval.arg) = 2
    /\ eval.arg[2] = Window(<<"w","i","n","d","o","w","-","2">>, <<"c">>, <<>>)

\* SpecCopy: an environment whose windows are those of the default template,
\* reordered while that template is saved or deleted
CopyKeys == {"2", "3", "L", "e", "d", "enter"}

InitCopy == Start({FileTwoEnvs}, {LiveNone})

\* L is pressed on the Windows panel, e and d on the Templates panel, and Enter in
\* the template form
OnItsPanel(key) ==
    /\ key = "L" => m.focusPane = focusPaneWindows
    /\ key \in {"e", "d"} => m.focusPane = focusPaneTemplates
    /\ key = "enter" <=> m.templateMode

PressCopy == \E key \in CopyKeys : OnItsPanel(key) /\ KeyPress(key, MaxRacing, NoTexts)

NextCopy ==
    \/ PressCopy
    \/ Receive
    \/ \E c \in BagToSet(cmds) : RunLoadConfig(c, TRUE)
    \/ \E c \in BagToSet(cmds) : RunLoadSessions(c, TRUE)
    \/ \E c \in BagToSet(cmds) : RunMoveWindowOrderRead(c, TRUE)
    \/ \E c \in BagToSet(cmds) : RunMoveWindowOrderSave(c, TRUE)
    \/ \E c \in BagToSet(cmds) : RunMoveWindowOrderWrite(c, TRUE, TRUE)
    \/ \E c \in BagToSet(cmds) : RunSaveTemplateRead(c, TRUE)
    \/ \E c \in BagToSet(cmds) : RunSaveTemplateWrite(c, TRUE)
    \/ \E c \in BagToSet(cmds) : RunDeleteTemplateRead(c, TRUE)
    \/ \E c \in BagToSet(cmds) : RunDeleteTemplateWrite(c, TRUE)

SpecCopy == InitCopy /\ [][NextCopy]_vars

\* every environment of doc is in after, with the same windows
KeepsEnvironmentWindows(doc, after) ==
    \A i \in 1..Len(doc.environments) :
        \E j \in 1..Len(after.environments) :
            /\ after.environments[j].name = doc.environments[i].name
            /\ after.environments[j].windows = doc.environments[i].windows

\* C28: the save, rename or delete of a template leaves the window list of every
\* environment of the configuration file as it was.
C28_TemplateWritesKeepEnvironments ==
    [][\A c \in BagToSet(cmds) :
          Leaves(c, "saveTemplate", "loaded") \/ Leaves(c, "deleteTemplate", "loaded")
              => KeepsEnvironmentWindows(file, file')]_vars

\* SpecAttach: Enter on an environment or on one of its windows, with no tmux
\* session, with the session of the environment, and with a session that has
\* lost the environment's second window, which the Windows panel still lists
\* until the sessions are loaded
LiveShort == WithSession(<<>>, SessionName(sA), <<<<"e">>>>)

AttachKeys == {"j", "2", "l", "enter"}

InitAttach == Start({FileTwoEnvs}, {LiveNone, LiveA, LiveShort})

PressAttach == \E key \in AttachKeys : KeyPress(key, MaxRacing, NoTexts)

NextAttach ==
    \/ PressAttach
    \/ Receive
    \/ \E c \in BagToSet(cmds) : RunLoadConfig(c, TRUE)
    \/ \E c \in BagToSet(cmds) : RunLoadSessions(c, TRUE)
    \/ \E c \in BagToSet(cmds) : RunCapturePane(c)
    \/ \E c \in BagToSet(cmds), tmuxOk \in BOOLEAN : RunPrepareAttach(c, tmuxOk)
    \/ \E c \in BagToSet(cmds) : RunExecAttach(c, TRUE)

SpecAttach == InitAttach /\ [][NextAttach]_vars

\* the session has a window of this name
WindowPresent(sessions, session, window) ==
    \E i \in 1..Len(sessions[session]) : sessions[session][i] = safeWindowName(window)

\* C29: a prepare-attach request that reports a target has left every session
\* that existed as it was and has created the environment's session if it was
\* absent; the target is session:window when a window was requested and the
\* session has it, and the session name alone otherwise.
C29_PrepareAttach ==
    [][\A c \in BagToSet(cmds), msg \in BagToSet(msgs') :
          Leaves(c, "prepareAttach", "start") /\ Reports(msg) /\ msg.err = NoErr
              => /\ DOMAIN live' = DOMAIN live \cup {SessionName(c.env.name)}
                 /\ \A s \in DOMAIN live : live'[s] = live[s]
                 /\ ~HasSession(live, SessionName(c.env.name))
                       => live'[SessionName(c.env.name)] = WindowNames(c.env)
                 /\ msg.target =
                       IF /\ TrimSpace(c.window) # <<>>
                          /\ WindowPresent(live', SessionName(c.env.name), c.window)
                       THEN SessionName(c.env.name) \o <<":">> \o safeWindowName(c.window)
                       ELSE SessionName(c.env.name)]_vars

\* C29's case: the window asked for is not in the session that exists, and the
\* request has reported the session alone as the target
C29_Witness ==
    /\ live = LiveShort
    /\ \E msg \in BagToSet(msgs) :
          msg.type = "attachReady" /\ msg.err = NoErr /\ msg.target = SessionName(sA)

\* SpecLoad: the load of a configuration file whose environments and templates
\* are in any order
MaxListed == 3

LoadFiles ==
    {Data(envs, tpls, sMidnight) :
        envs \in Lists({Environment(name, <<"r">>, <<wShell>>) :
                           name \in {<<"B">>, <<"A">>, <<"a">>}}, 0, MaxListed),
        tpls \in Lists({Template(name, <<wShell>>) :
                           name \in {<<"b">>, <<"D","e","f","a","u","l","t">>, <<"d","e","f","a","u","l","t">>, <<"a">>}}, 1, MaxListed)}

InitLoad == Start(LoadFiles, {LiveNone})

NextLoad ==
    \/ Receive
    \/ \E c \in BagToSet(cmds), ioOk \in BOOLEAN : RunLoadConfig(c, ioOk)
    \/ \E c \in BagToSet(cmds) : RunLoadSessions(c, TRUE)

SpecLoad == InitLoad /\ [][NextLoad]_vars

\* the name is "default", in any case
NamedDefault(t) == ToLower(t.name) = <<"d","e","f","a","u","l","t">>

\* the names do not decrease from i to j
InNameOrder(s, i, j) == ~StrLess(ToLower(s[j].name), ToLower(s[i].name))

\* C30: a config-load result without error carries the environments of the file
\* in non-decreasing order of lowercased name, and its templates with those named
\* "default" in any case first, each of the two groups in non-decreasing order of
\* lowercased name.
C30_LoadedInOrder ==
    \A msg \in BagToSet(msgs) :
        msg.type = "configLoaded" /\ msg.err = NoErr
            => /\ Len(msg.envs) = Len(file.environments)
               /\ Len(msg.templates) = Len(file.templates)
               /\ \A i, j \in 1..Len(msg.envs) : i < j => InNameOrder(msg.envs, i, j)
               /\ \A i, j \in 1..Len(msg.templates) :
                     i < j => /\ NamedDefault(msg.templates[j]) => NamedDefault(msg.templates[i])
                              /\ NamedDefault(msg.templates[i]) = NamedDefault(msg.templates[j])
                                    => InNameOrder(msg.templates, i, j)

\* C30's case: the file lists B before A and a, and a before Default; the result
\* of its load ends with B, and starts with Default
C30_Witness ==
    /\ Len(file.environments) = 3
    /\ file.environments[1].name = <<"B">>
    /\ file.environments[2].name # <<"B">>
    /\ file.environments[3].name # <<"B">>
    /\ Len(file.templates) = 2
    /\ file.templates[1].name = <<"a">>
    /\ \E msg \in BagToSet(msgs) :
          /\ msg.type = "configLoaded"
          /\ msg.err = NoErr
          /\ msg.envs[3].name = <<"B">>
          /\ msg.templates[1].name = <<"D","e","f","a","u","l","t">>

\* SpecPanes: splitPaneWidths on the widths of a terminal
MaxWidth == 150

InitPanes == Idle /\ eval \in Calls("splitPaneWidths", 1..MaxWidth)

NextPanes == Returns("splitPaneWidths", splitPaneWidths(eval.arg))

SpecPanes == InitPanes /\ [][NextPanes]_vars

\* C31: for every terminal width, the left column width that splitPaneWidths
\* returns is at least 28 and at most 44.
C31_LeftWidthClamped ==
    eval.fn = "splitPaneWidths" /\ eval.done => eval.out[1] >= 28 /\ eval.out[1] <= 44

\* windows with the windows at positions k and k + direction exchanged
Exchanged(windows, k, direction) ==
    [windows EXCEPT ![k] = windows[k + direction], ![k + direction] = windows[k]]

\* after is doc with the named window of the named environment exchanged with its
\* neighbour in the direction, and nothing else changed
SwapsNeighbours(doc, after, c) ==
    \E i \in 1..Len(doc.environments) :
        /\ EqualFold(TrimSpace(doc.environments[i].name), TrimSpace(c.name))
        /\ \E k \in 1..Len(doc.environments[i].windows) :
              /\ k + c.direction \in 1..Len(doc.environments[i].windows)
              /\ normalizeWindowName(doc.environments[i].windows[k].name)
                    = normalizeWindowName(c.window)
              /\ after = [doc EXCEPT !.environments[i].windows =
                                        Exchanged(doc.environments[i].windows, k, c.direction)]

\* C32: a reorder request that reports success has exchanged the named window
\* with its neighbour in the environment's window list of the configuration file
\* and changed nothing else in the file; a request that reports an error has
\* changed neither the file nor the live windows; and the live windows change
\* only in the step that writes the file.
C32_ReorderSwapsNeighbours ==
    [][\A c \in BagToSet(cmds) :
          /\ \A msg \in BagToSet(msgs') :
                Leaves(c, "moveWindowOrder", "saving") /\ Reports(msg)
                    => IF msg.err = NoErr THEN SwapsNeighbours(file, file', c)
                       ELSE file' = file /\ live' = live
          /\ c.op = "moveWindowOrder" /\ CopiesIn(c, cmds') < CopiesIn(c, cmds) /\ live' # live
                => c.stage = "saving" /\ file' = SaveAll(c.data)]_vars

\* SpecSelect: the three selections moved over two environments, their windows
\* and two templates, while environments, templates and sessions go away and
\* the results of the loads arrive in any order
FileTwoOfEach == Data(FileTwoEnvs.environments, <<tDefault, tA>>, sMidnight)

SelectKeys == {"2", "3", "j", "l", "d", "x"}

InitSelect == Start({FileTwoOfEach}, {LiveNone, LiveA, LiveShort})

PressSelect == \E key \in SelectKeys : KeyPress(key, MaxInFlight, NoTexts)

NextSelect ==
    \/ PressSelect
    \/ Receive
    \/ \E c \in BagToSet(cmds) : RunLoadConfig(c, TRUE)
    \/ \E c \in BagToSet(cmds) : RunLoadSessions(c, TRUE)
    \/ \E c \in BagToSet(cmds) : RunCapturePane(c)
    \/ \E c \in BagToSet(cmds) : RunKillSession(c, TRUE)
    \/ \E c \in BagToSet(cmds) : RunDeleteEnvironmentRead(c, TRUE)
    \/ \E c \in BagToSet(cmds) : RunDeleteEnvironmentWrite(c, TRUE, TRUE)
    \/ \E c \in BagToSet(cmds) : RunDeleteTemplateRead(c, TRUE)
    \/ \E c \in BagToSet(cmds) : RunDeleteTemplateWrite(c, TRUE)

SpecSelect == InitSelect /\ [][NextSelect]_vars

\* i is 0 for an empty list, and an index of the list otherwise
ValidIndex(i, n) == IF n = 0 THEN i = 0 ELSE i >= 0 /\ i <= n - 1

\* C33: selectedEnv, selectedWindow and selectedTemplate are valid indices of the
\* environment list, of the current window list of the selected environment and
\* of the template list, in every reachable state.
C33_SelectionsValid ==
    /\ ValidIndex(m.selectedEnv, Len(m.environments))
    /\ ValidIndex(m.selectedWindow, Len(currentWindowNames(m)))
    /\ ValidIndex(m.selectedTemplate, Len(m.templates))

\* C33's case: the second environment was selected and deleted, and the list
\* that was loaded afterwards holds the first one only
C33_Witness ==
    /\ Len(m.environments) = 1
    /\ m.environments[1].name = sA
    /\ m.selectedEnv = 0
    /\ m.status.text = "Deleted environment "


\* SpecModal: the theme picker, the shortcuts overlay and the two forms, and under
\* them the keys that delete, refresh, move and confirm in Normal mode
ModalTexts == {<<"d">>}
ModalOpenKeys == {"a", "?", "ctrl+t", "esc", "3"}
ModalKeys == ModalOpenKeys \cup {"d", "r", "L", "x", "2", "enter"}

InitModal == Start({FileTwoEnvs}, {LiveNone})

\* in Normal mode only the keys that open an overlay or change panel are pressed
PressModal ==
    \E key \in ModalKeys :
        /\ NormalMode(m) => key \in ModalOpenKeys
        /\ KeyPress(key, MaxInFlight, ModalTexts)

NextModal ==
    \/ PressModal
    \/ Receive
    \/ \E c \in BagToSet(cmds) : RunLoadConfig(c, TRUE)
    \/ \E c \in BagToSet(cmds) : RunLoadSessions(c, TRUE)
    \/ \E c \in BagToSet(cmds) : RunCapturePane(c)
    \/ \E c \in BagToSet(cmds) : RunSaveThemeRead(c, TRUE)
    \/ \E c \in BagToSet(cmds) : RunSaveThemeWrite(c, TRUE)
    \/ \E c \in BagToSet(cmds) : RunCreateEnvironmentRead(c, TRUE)
    \/ \E c \in BagToSet(cmds) : RunCreateEnvironmentWrite(c, TRUE, TRUE)
    \/ \E c \in BagToSet(cmds) : RunSaveTemplateRead(c, TRUE)
    \/ \E c \in BagToSet(cmds) : RunSaveTemplateWrite(c, TRUE)

SpecModal == InitModal /\ [][NextModal]_vars

\* the requests of Normal mode: delete, kill, attach, reorder and refresh
NormalModeRequests ==
    {"deleteEnvironment", "deleteTemplate", "killSession", "prepareAttach", "execAttach",
     "moveWindowOrder", "loadConfig", "loadSessions"}

\* C34: while the theme picker, the shortcuts overlay, the create form or the
\* template form is open, no key press changes focusPane, selectedEnv,
\* selectedWindow or selectedTemplate, and no key press issues a delete, kill,
\* attach, reorder or refresh request.
C34_OverlayKeepsPanels ==
    [][\A key \in ModalKeys :
          ~NormalMode(m) /\ KeyPress(key, MaxInFlight, ModalTexts)
              => /\ m'.focusPane = m.focusPane
                 /\ m'.selectedEnv = m.selectedEnv
                 /\ m'.selectedWindow = m.selectedWindow
                 /\ m'.selectedTemplate = m.selectedTemplate
                 /\ \A op \in NormalModeRequests : ~Issues(op)]_vars

\* 'd' was typed into the template form, and into the theme picker opened over
\* it, with the Templates panel underneath
C34_Witness ==
    /\ m.focusPane = focusPaneTemplates
    /\ m.templateMode
    /\ m.templateName = <<"d">>
    /\ m.showThemePicker
    /\ m.themeQuery = <<"d">>


\* SpecNames: environments created from the form under names that differ in a
\* space and a hyphen
NameTexts == {<<"a">>, <<"a", " ">>, <<"a", " ", "a">>, <<"a", "-">>, <<"a", "-", "a">>}
NameKeys == {"a", " ", "-", "enter"}

InitNames == Start({FileNoEnvs}, {LiveNone})

\* the space and the hyphen are typed into the name field only, after an 'a'
InNameField(key) ==
    key \in {" ", "-"} => m.createMode /\ m.createField = createFieldName
                             /\ m.createName = <<"a">>

PressNames ==
    \E key \in NameKeys :
        InForm(key) /\ InNameField(key) /\ KeyPress(key, MaxInFlight, NameTexts)

NextNames ==
    \/ PressNames
    \/ Receive
    \/ \E c \in BagToSet(cmds) : RunLoadConfig(c, TRUE)
    \/ \E c \in BagToSet(cmds) : RunLoadSessions(c, TRUE)
    \/ \E c \in BagToSet(cmds) : RunCapturePane(c)
    \/ \E c \in BagToSet(cmds) : RunCreateEnvironmentRead(c, TRUE)
    \/ \E c \in BagToSet(cmds) : RunCreateEnvironmentWrite(c, TRUE, TRUE)

SpecNames == InitNames /\ [][NextNames]_vars

\* C35: two persisted environments whose names differ ignoring case have
\* different session names, so that no environment's session is another's.
C35_SessionNamesDistinct ==
    \A i, j \in 1..Len(file.environments) :
        ~EqualFold(file.environments[i].name, file.environments[j].name)
            => SessionName(file.environments[i].name) # SessionName(file.environments[j].name)


\* SpecErase: templates deleted from the Templates panel, down to the last one
FileOneTemplate == Data(<<>>, <<tA>>, sMidnight)
EraseKeys == {"3", "j", "d"}

InitErase == Start({FileNoEnvs, FileOneTemplate, FileTwoTemplates}, {LiveNone})

PressErase == \E key \in EraseKeys : KeyPress(key, MaxInFlight, NoTexts)

NextErase ==
    \/ PressErase
    \/ Receive
    \/ \E c \in BagToSet(cmds) : RunLoadConfig(c, TRUE)
    \/ \E c \in BagToSet(cmds) : RunLoadSessions(c, TRUE)
    \/ \E c \in BagToSet(cmds) : RunDeleteTemplateRead(c, TRUE)
    \/ \E c \in BagToSet(cmds) : RunDeleteTemplateWrite(c, TRUE)

SpecErase == InitErase /\ [][NextErase]_vars

ShowsTemplateNamed(mm, name) ==
    \E i \in 1..Len(mm.templates) : EqualFold(mm.templates[i].name, name)

\* C36: once the delete of template T has succeeded and the reload it triggers is
\* applied, the template list shown has no template named T, ignoring case, also
\* when T was the only template.
C36_DeletedTemplateGone ==
    [][\A msg \in BagToSet(msgs) :
          /\ m.status.text = "Template deleted: "
          /\ msg.type = "configLoaded" /\ msg.err = NoErr
          /\ Takes(msg)
          => ~ShowsTemplateNamed(m', m.status.arg)]_vars


\* SpecShift: windows reordered from the Windows panel, one request at a time
InitShift == Start({FileTwoEnvs}, {LiveNone, LiveA})

\* the selection is moved by hand only while no request is in flight
PressShift ==
    \E key \in ReorderKeys :
        /\ key = "l" => InFlight = 0
        /\ KeyPress(key, MaxInFlight, NoTexts)

NextShift ==
    \/ PressShift
    \/ Receive
    \/ \E c \in BagToSet(cmds) : RunLoadConfig(c, TRUE)
    \/ \E c \in BagToSet(cmds) : RunLoadSessions(c, TRUE)
    \/ \E c \in BagToSet(cmds) : RunCapturePane(c)
    \/ \E c \in BagToSet(cmds) : RunMoveWindowOrderRead(c, TRUE)
    \/ \E c \in BagToSet(cmds) : RunMoveWindowOrderSave(c, TRUE)
    \/ \E c \in BagToSet(cmds) : RunMoveWindowOrderWrite(c, TRUE, TRUE)

SpecShift == InitShift /\ [][NextShift]_vars

\* C37: a successful reorder moves selectedWindow by the direction of the move
\* when its result is received, and the reload of the configuration that follows
\* leaves selectedWindow there.
C37_SelectionFollowsWindow ==
    [][\A msg \in BagToSet(msgs) :
          Takes(msg) /\ msg.err = NoErr
          => /\ msg.type = "windowMoved" /\ m.status.text = "Reordering window..."
                => m'.selectedWindow = m.selectedWindow + msg.direction
             /\ msg.type = "configLoaded" /\ m.pendingSelect # <<>>
                   /\ m.status.text \in {"Window moved left.", "Window moved right."}
                => m'.selectedWindow = m.selectedWindow]_vars


\* SpecArrive: environment "c" created from the form while results of the
\* startup loads or of a refresh are still to arrive
sC == <<"c">>
ArriveTexts == {sC}
ArriveKeys == {"a", "c", "r", "enter"}

InitArrive == Start({FileTwoEnvs}, {LiveNone})

\* 'c' and Enter are pressed in the form only
PressArrive ==
    \E key \in ArriveKeys :
        /\ key \in {"c", "enter"} => m.createMode
        /\ KeyPress(key, MaxRacing, ArriveTexts)

NextArrive ==
    \/ PressArrive
    \/ Receive
    \/ \E c \in BagToSet(cmds) : RunLoadConfig(c, TRUE)
    \/ \E c \in BagToSet(cmds) : RunLoadSessions(c, TRUE)
    \/ \E c \in BagToSet(cmds) : RunCapturePane(c)
    \/ \E c \in BagToSet(cmds) : RunCreateEnvironmentRead(c, TRUE)
    \/ \E c \in BagToSet(cmds) : RunCreateEnvironmentWrite(c, TRUE, TRUE)

SpecArrive == InitArrive /\ [][NextArrive]_vars

\* C38: once every request has reported after the environment was created, the
\* new environment is the selected one, in whatever order the results of the
\* config loads arrived.
C38_CreatedIsSelected ==
    /\ InFlight = 0
    /\ m.status.text = "Environment and tmux session created. Press Enter to attach."
    => currentEnvOk(m) /\ currentEnv(m).name = sC


\* SpecTheme: a theme applied in the picker while the result of the startup
\* config load is still to arrive
ThemeKeys == {"ctrl+t", "j", "enter"}

InitTheme == Start({FileNoEnvs}, {LiveNone})

SavingTheme ==
    \/ \E c \in BagToSet(cmds) : c.op = "saveTheme"
    \/ \E msg \in BagToSet(msgs) : msg.type = "themePersisted"

\* the picker is opened when closed, and a theme is applied once the one before
\* it is persisted
PressTheme ==
    \E key \in ThemeKeys :
        /\ InPicker(key)
        /\ key = "enter" => ~SavingTheme
        /\ KeyPress(key, MaxRacing, NoTexts)

NextTheme ==
    \/ PressTheme
    \/ Receive
    \/ \E c \in BagToSet(cmds) : RunLoadConfig(c, TRUE)
    \/ \E c \in BagToSet(cmds) : RunLoadSessions(c, TRUE)
    \/ \E c \in BagToSet(cmds) : RunSaveThemeRead(c, TRUE)
    \/ \E c \in BagToSet(cmds) : RunSaveThemeWrite(c, TRUE)

SpecTheme == InitTheme /\ [][NextTheme]_vars

\* C39: once no request is in flight, the theme shown is the persisted theme, the
\* one last applied in the picker; the result of a config load read before the
\* theme was persisted does not bring the old theme back.
C39_ThemeIsPersisted ==
    InFlight = 0 => EqualFold(currentThemeName(m), TrimSpace(file.theme))


\* SpecPreview: the preview of the selected window of a live session, while the
\* selection moves and captures overlap
PreviewKeys == {"2", "l", "h", "j"}

InitPreview == Start({FileTwoEnvs}, {LiveA, LiveShort})

PressPreview == \E key \in PreviewKeys : KeyPress(key, MaxRacing, NoTexts)

NextPreview ==
    \/ PressPreview
    \/ Receive
    \/ \E c \in BagToSet(cmds) : RunLoadConfig(c, TRUE)
    \/ \E c \in BagToSet(cmds) : RunLoadSessions(c, TRUE)
    \/ \E c \in BagToSet(cmds) : RunCapturePane(c)

SpecPreview == InitPreview /\ [][NextPreview]_vars

\* C40: once every request has reported, if the session of the selected
\* environment is live, previewSession and previewWindow name that session and
\* its selected window, whichever startup load arrived first and in whatever
\* order the captures reported.
C40_PreviewIsSelectedWindow ==
    /\ InFlight = 0
    /\ currentEnvOk(m)
    /\ SessionName(currentEnv(m).name) \in m.sessions
    /\ m.selectedWindow < Len(currentWindowNames(m))
    => /\ m.previewSession = SessionName(currentEnv(m).name)
       /\ m.previewWindow = currentWindowNames(m)[m.selectedWindow + 1]

====
